---- MODULE Spec2Model ----
(***************************************************************************)
(* Model of the DraftKings tennis odds scraper: the module-level browser   *)
(* session (draftkings.ts), the scrape cycle and its scheduling            *)
(* (transformer.ts, second half), the response observer of                 *)
(* fetchAllTournamentOdds and the per-tournament capture                   *)
(* fetchTournamentOdds.                                                    *)
(*                                                                         *)
(* Every `await` of the code is a point where the other cycles, the page's *)
(* response events and the timers may run, so every await is one state of  *)
(* a cycle (its pc) and the code between two awaits is one action.         *)
(***************************************************************************)
EXTENDS Integers, Naturals, Sequences, FiniteSets, TLC

\* ---------------------------------------------------------------- bounds
MaxCycles == 2        \* scrape() invocations that may be in flight together
MaxInst == 2          \* Chrome processes puppeteer.launch may create
MaxTournaments == 1   \* tournaments the resolver returns (ids 1..n)
MaxTargets == 2       \* tournaments of the capture in the observer specification
MaxEgId == 3          \* eventGroupId values a response body may carry
MaxUrlEg == 12        \* ids that may occur in an /eventgroups/<id> URL
MaxRecs == 1          \* records a payload normalizes to
MaxPending == 1       \* handler invocations awaiting resp.json() per page

\* ------------------------------------------------------ program constants
HTTP_OK == 200

\* ---------------------------------------------------- statuses that occur
Other2xxStatus == 204 \* a status of the 2xx range that is not 200
Non2xxStatus == 404   \* a status outside the 2xx range

Cycles == 1..MaxCycles
Insts == 1..MaxInst

\* -------------------------------------------------------------- responses
\* url: "asset" matches the static-asset regex, "data" is a data: URI,
\* "api" contains one of the diagnostic keywords (sportscontent, eventgroup,
\* events, markets, ...), "other" is anything else.  urlEg > 0 says that the
\* URL is .../eventgroups/<urlEg>.
UrlKinds == {"asset", "data", "api", "other"}
Statuses == {HTTP_OK, Other2xxStatus, Non2xxStatus}
ContentTypes == {"json", "html", "none"}

\* A body: kind "empty" (no bytes), "garbage" (not JSON), "null" (the JSON
\* value null), "object".  eg: the object has an eventGroup member; egId: its
\* eventGroupId (0: missing or falsy); recs: the records the payload
\* normalizes to.
Bodies ==
    {[kind |-> k, eg |-> FALSE, egId |-> 0, recs |-> 0] :
        k \in {"empty", "garbage", "null", "object"}}
    \cup {[kind |-> "object", eg |-> TRUE, egId |-> i, recs |-> n] :
        i \in 0..MaxEgId, n \in 0..MaxRecs}

Responses ==
    {r \in [url : UrlKinds, urlEg : 0..MaxUrlEg, status : Statuses,
            ct : ContentTypes, body : Bodies] :
        r.url # "api" => r.urlEg = 0}

\* The responses drawn in the cycle specification: eventGroup documents of
\* the tournament ids, with events and without, each with and without a JSON
\* content type and a 200 status.
CycleResponses ==
    {r \in Responses :
        /\ r.url = "api" /\ r.urlEg = 0
        /\ r.ct \in {"json", "html"}
        /\ r.status \in {HTTP_OK, Non2xxStatus}
        /\ r.body.eg /\ r.body.egId \in 1..MaxTournaments
        /\ r.body.recs \in {0, MaxRecs}}

\* ------------------------------------------------------------------ state
VARIABLES
    browser,    \* draftkings.ts:11  the module-level browser (0: null)
    chrome,     \* the Chrome process of each instance: "none", "running", "closed"
    cyc,        \* the locals of each scrape() invocation in flight
    ended,      \* how the scrape() call that ended last ended
    track,      \* whether `ended` is kept
    unhandled,  \* an exception escaped a response handler
    seen,       \* the last response given to the handler of fetchAllTournamentOdds
    pt,         \* the locals of a fetchTournamentOdds call
    call        \* a call of a pure function: its name, argument and result

vars == <<browser, chrome, cyc, ended, track, unhandled, seen, pt, call>>

\* tournaments: the resolver's list, ids 1..n in catalog order.
TournamentList(n) == [i \in 1..n |-> i]

\* draftkings.ts:209  const targetIds = new Set(tournaments.map(...))
TargetIdsOf(tournaments) == {tournaments[i] : i \in DOMAIN tournaments}

\* Map.has / Map.get / Map.set on a map held as a set of <<key, value>>.
MapHas(m, k) == \E e \in m : e[1] = k
MapGet(m, k) == (CHOOSE e \in m : e[1] = k)[2]
MapSet(m, k, v) == {e \in m : e[1] # k} \cup {<<k, v>>}

InitCycle ==
    [pc |-> "idle", tournaments |-> <<>>, page |-> 0, pageCfg |-> {},
     handlerOn |-> FALSE, results |-> {}, pending |-> {}, idx |-> 0,
     allEvents |-> 0, closing |-> 0, navs |-> <<>>, capDone |-> "no"]

\* how: "ok", "empty" (nothing to scrape), "error" (the catch block ran) or
\* "rejected" (scrape() itself rejected); browser: the module-level browser then
NoEnd == [how |-> "none", browser |-> 0]

NoBody == [kind |-> "empty", eg |-> FALSE, egId |-> 0, recs |-> 0]

NoResponse ==
    [url |-> "other", urlEg |-> 0, status |-> Non2xxStatus, ct |-> "none",
     body |-> NoBody]

\* stage "none": no response has been given to the observer yet
NoSeen == [r |-> NoResponse, stage |-> "none", parsed |-> FALSE, changed |-> FALSE]

\* promise: apiResponsePromise, "pending", "null" or "json" (then value is the
\* payload); ret: what the call returned, "none" while it runs
InitPt ==
    [pc |-> "off", eventGroupId |-> 0, handlerOn |-> FALSE, timeout |-> "none",
     promise |-> "pending", value |-> NoBody, pending |-> {}, ret |-> "none",
     navs |-> 0]

\* No pure function is being followed.
NoCall == [fn |-> "none", arg |-> 0, ret |-> 0, done |-> FALSE]

Init ==
    /\ browser = 0
    /\ chrome = [i \in Insts |-> "none"]
    /\ cyc = [c \in Cycles |-> InitCycle]
    /\ ended = NoEnd
    /\ track = FALSE
    /\ unhandled = FALSE
    /\ seen = NoSeen
    /\ pt = InitPt
    /\ call = NoCall

\* ------------------------------------------------- the response observer
\* draftkings.ts:216-234  the admission filters of the handler, in the
\* code's order; the value is the check that returned, or "parse"
IsStaticAsset(r) == r.url = "asset"

\* The filters without the content-type check.
HandlerStage_NoContentType(r) ==
    IF IsStaticAsset(r) THEN "static"
    ELSE IF r.url = "data" THEN "data"
    ELSE IF r.status # HTTP_OK THEN "status"
    ELSE "parse"

HandlerStage(r) ==
    IF IsStaticAsset(r) THEN "static"
    ELSE IF r.url = "data" THEN "data"
    ELSE IF r.status # HTTP_OK THEN "status"
    ELSE IF r.ct # "json" THEN "ctype"
    ELSE "parse"

\* resp.json() rejects on a body that is not JSON (an empty one included)
JsonThrows(body) == body.kind \in {"empty", "garbage"}

\* draftkings.ts:259  Object.keys(json) throws a TypeError on null; line 263
\* is not reached then
DiagnosticsThrow(r) == r.url = "api" /\ r.body.kind = "null"

\* draftkings.ts:240-248  the match against the requested ids
HandlerMatches(body, targetIds) ==
    body.kind = "object" /\ body.eg /\ body.egId # 0 /\ body.egId \in targetIds

\* draftkings.ts:236-286  the try block: the map it leaves and whether it threw
HandlerTry(r, targetIds, results) ==
    IF JsonThrows(r.body)
    THEN [results |-> results, threw |-> TRUE]
    ELSE [results |-> IF HandlerMatches(r.body, targetIds)
                      THEN MapSet(results, r.body.egId, r.body)
                      ELSE results,
          threw |-> DiagnosticsThrow(r)]

\* draftkings.ts:287-289  catch {}: whether the exception leaves the handler
HandlerCatch(threw) == FALSE

\* ------------------------------------------------ the tournament resolver
MaxGroups == 2        \* sport groups of a catalog
MaxChildren == 2      \* child groups of a catalog, over all its sport groups

\* config.ts:10  TENNIS_DISPLAY_GROUP_ID = "6"
TENNIS_DISPLAY_GROUP_ID == 6

\* A name is a sequence of words; a word is its lower-case spelling and
\* whether it is written with capitals.  "" and undefined are both <<>>.
Lower(w) == [w |-> w, cap |-> FALSE]
Capital(w) == [w |-> w, cap |-> TRUE]

\* String.prototype.toLowerCase
ToLowerCase(name) == [i \in DOMAIN name |-> [name[i] EXCEPT !.cap = FALSE]]

\* String.prototype.includes, for a keyword made of whole words
Includes(name, kw) ==
    \E i \in 0..(Len(name) - Len(kw)) :
        \A j \in 1..Len(kw) : name[i + j] = kw[j]

\* config.ts:25-57  SKIP_TOURNAMENT_KEYWORDS (two of them: a one-word and a
\* two-word keyword)
SKIP_TOURNAMENT_KEYWORDS == {<<Lower("miami")>>, <<Lower("us"), Lower("open")>>}

\* config.ts:59-62
shouldSkipTournament(name) ==
    LET lower == ToLowerCase(name)
    IN \E kw \in SKIP_TOURNAMENT_KEYWORDS : Includes(lower, kw)

\* draftkings.ts:176  name.toLowerCase().includes("doubles")
IsDoubles(name) == Includes(ToLowerCase(name), <<Lower("doubles")>>)

\* The heads of the sport groups drawn: displayGroupId and displayName.
GroupHeads ==
    {[displayGroupId |-> TENNIS_DISPLAY_GROUP_ID, displayName |-> <<Capital("golf")>>],
     [displayGroupId |-> TENNIS_DISPLAY_GROUP_ID + 1, displayName |-> <<Capital("tennis")>>],
     [displayGroupId |-> TENNIS_DISPLAY_GROUP_ID + 1, displayName |-> <<Capital("golf")>>],
     [displayGroupId |-> TENNIS_DISPLAY_GROUP_ID + 1, displayName |-> <<>>]}

\* The names of the child groups drawn: eventGroupName, displayName and name.
ChildNames ==
    {[eventGroupName |-> <<>>, displayName |-> <<>>, name |-> <<>>],
     [eventGroupName |-> <<Capital("atp"), Capital("delray")>>,
      displayName |-> <<Capital("wta"), Capital("doubles")>>, name |-> <<>>],
     [eventGroupName |-> <<Capital("atp"), Capital("miami")>>,
      displayName |-> <<>>, name |-> <<>>],
     [eventGroupName |-> <<>>, displayName |-> <<Capital("us"), Capital("open")>>,
      name |-> <<Capital("atp"), Capital("delray")>>],
     [eventGroupName |-> <<>>, displayName |-> <<>>,
      name |-> <<Capital("wta"), Capital("doubles"), Lower("delray")>>]}

\* A child group: its eventGroupId (0: missing) and its three names.
Child(i, n) ==
    [eventGroupId |-> i, eventGroupName |-> n.eventGroupName,
     displayName |-> n.displayName, name |-> n.name]

PlainNames ==
    {n \in ChildNames : n.eventGroupName = <<Capital("atp"), Capital("delray")>>}

\* The child groups drawn for place i of a sport group: the eventGroupId is
\* i, or is missing on a group with a plain name.
ChildAt(i) ==
    {Child(i, n) : n \in ChildNames} \cup {Child(0, n) : n \in PlainNames}

\* The lists of n child groups.
ChildLists(n) ==
    {cs \in [1..n -> UNION {ChildAt(i) : i \in 1..n}] :
        \A i \in 1..n : cs[i] \in ChildAt(i)}

\* The children of the sport groups that are not varied: one plain group.
FixedChildren == {<<Child(MaxChildren + 1, n)>> : n \in PlainNames}

\* A list of sport groups: the heads given, the group at place `at` with the
\* children cs, the others with the fixed list.
GroupList(heads, at, cs, fixed) ==
    [i \in DOMAIN heads |->
        [displayGroupId |-> heads[i].displayGroupId,
         displayName |-> heads[i].displayName,
         eventGroupInfos |-> IF i = at THEN cs ELSE fixed]]

\* The answers of the nav API: res.ok, and what the body is: not JSON, the
\* JSON value null, an object without displayGroupInfos, or a catalog.
NavResponse(ok, kind, groups) == [ok |-> ok, kind |-> kind, groups |-> groups]

\* The answers that are no catalog, and the catalog without sport groups.
PlainNavResponses ==
    {NavResponse(ok, kind, <<>>) :
        ok \in BOOLEAN, kind \in {"notjson", "null", "nogroups", "groups"}}

\* draftkings.ts:145-149  groups.find(...): the place of the first group whose
\* displayGroupId is that of tennis or whose displayName is "tennis" in lower
\* case; 0 when there is none
FindTennisSport(groups) ==
    LET IsTennis(g) ==
            \/ g.displayGroupId = TENNIS_DISPLAY_GROUP_ID
            \/ ToLowerCase(g.displayName) = <<Lower("tennis")>>
        hits == {i \in DOMAIN groups : IsTennis(groups[i])}
    IN IF hits = {} THEN 0 ELSE CHOOSE i \in hits : \A j \in hits : i <= j

\* draftkings.ts:166  eg.eventGroupName || eg.displayName || eg.name || ""
ChildName(eg) ==
    IF eg.eventGroupName # <<>> THEN eg.eventGroupName
    ELSE IF eg.displayName # <<>> THEN eg.displayName
    ELSE eg.name

\* The loop without its doubles filter.
KeepsChild_NoDoublesFilter(eg) ==
    /\ eg.eventGroupId # 0 /\ ChildName(eg) # <<>>
    /\ ~shouldSkipTournament(ChildName(eg))

\* draftkings.ts:169-181  whether the loop pushes the child group
KeepsChild(eg) ==
    /\ eg.eventGroupId # 0 /\ ChildName(eg) # <<>>
    /\ ~shouldSkipTournament(ChildName(eg))
    /\ ~IsDoubles(ChildName(eg))

\* draftkings.ts:163-182  the loop over eventGroups, from place i on
RECURSIVE PushTournaments(_, _)
PushTournaments(eventGroups, i) ==
    IF i > Len(eventGroups) THEN <<>>
    ELSE (IF KeepsChild(eventGroups[i])
          THEN <<[eventGroupId |-> eventGroups[i].eventGroupId,
                  name |-> ChildName(eventGroups[i])]>>
          ELSE <<>>)
         \o PushTournaments(eventGroups, i + 1)

\* The resolver with a missing sport group treated as an error.
fetchTennisTournaments_ThrowsWithoutSport(res) ==
    IF ~res.ok \/ res.kind \in {"notjson", "null"}
    THEN [threw |-> TRUE, list |-> <<>>]
    ELSE LET groups == IF res.kind = "groups" THEN res.groups ELSE <<>>
             at == FindTennisSport(groups)
         IN [threw |-> at = 0,
             list |-> IF at = 0 THEN <<>>
                      ELSE PushTournaments(groups[at].eventGroupInfos, 1)]

\* draftkings.ts:134-192  what the call does with the answer: it throws
\* (138-140 on !res.ok, 142 when the body is not JSON, 143 on null) or it
\* returns a list
fetchTennisTournaments(res) ==
    IF ~res.ok \/ res.kind \in {"notjson", "null"}
    THEN [threw |-> TRUE, list |-> <<>>]
    ELSE LET groups == IF res.kind = "groups" THEN res.groups ELSE <<>>
             at == FindTennisSport(groups)
         IN [threw |-> FALSE,
             list |-> IF at = 0 THEN <<>>
                      ELSE PushTournaments(groups[at].eventGroupInfos, 1)]

NoReturn == [threw |-> FALSE, list |-> <<>>]

ResolverCall(res) ==
    [fn |-> "fetchTennisTournaments", arg |-> res, ret |-> NoReturn, done |-> FALSE]

\* The resolver specification: a call of fetchTennisTournaments on a plain
\* answer, or on a catalog of at most MaxGroups sport groups, one of which
\* has any list of at most MaxChildren children.
InitResolver ==
    /\ browser = 0
    /\ chrome = [i \in Insts |-> "none"]
    /\ cyc = [c \in Cycles |-> InitCycle]
    /\ ended = NoEnd
    /\ track = FALSE
    /\ unhandled = FALSE
    /\ seen = NoSeen
    /\ pt = InitPt
    /\ \/ \E res \in PlainNavResponses : call = ResolverCall(res)
       \/ \E g \in 1..MaxGroups, n \in 0..MaxChildren :
             \E heads \in [1..g -> GroupHeads], at \in 1..g,
                cs \in ChildLists(n), fixed \in FixedChildren :
                   call = ResolverCall(
                       NavResponse(TRUE, "groups", GroupList(heads, at, cs, fixed)))

ResolverReturns ==
    /\ call.fn = "fetchTennisTournaments" /\ ~call.done
    /\ call' = [call EXCEPT !.ret = fetchTennisTournaments(call.arg), !.done = TRUE]
    /\ UNCHANGED <<browser, chrome, cyc, ended, track, unhandled, seen, pt>>

NextResolver == ResolverReturns

SpecResolver == InitResolver /\ [][NextResolver]_vars

\* ------------------------------------------------------- the scrape cycle
\* The end of a scrape() call: its locals are dropped; `ended` keeps how it
\* ended and the module-level browser at that moment.
End(c, cur, how, b) ==
    /\ cyc' = [cyc EXCEPT ![c] = InitCycle]
    /\ ended' = IF track THEN [how |-> how, browser |-> b] ELSE ended

\* draftkings.ts:35-36 called from transformer.ts:538-541: the catch block
\* calls closeBrowser(), which awaits browser.close() only when a browser is
\* set. Nothing reads the other locals of the cycle after the throw.
Catch(c, cur) ==
    IF browser # 0
    THEN /\ cyc' = [cyc EXCEPT ![c] =
                      [InitCycle EXCEPT !.pc = "closing", !.closing = browser,
                                        !.page = cur.page,
                                        !.handlerOn = cur.handlerOn,
                                        !.capDone = cur.capDone]]
         /\ UNCHANGED <<browser, chrome, ended>>
    ELSE /\ End(c, cur, "error", browser)
         /\ UNCHANGED <<browser, chrome>>

\* transformer.ts:555-559  cron.schedule(CRON_SCHEDULE, scrape) and the
\* run-on-start call: each calls scrape(), whatever the earlier calls are doing
Trigger(c) ==
    /\ cyc[c].pc = "idle"
    /\ cyc' = [cyc EXCEPT ![c] = [InitCycle EXCEPT !.pc = "discover"]]
    /\ UNCHANGED <<browser, chrome, ended, track, unhandled, seen, pt, call>>

\* draftkings.ts:13-14 and 49-52: launchBrowser() with a browser set returns
\* at once, and createDKPage() calls browser.newPage() on it
CallNewPage(c, cur, b) ==
    cyc' = [cyc EXCEPT ![c] = [cur EXCEPT !.pc = "newPage", !.page = b]]

\* transformer.ts:495-503  fetchTennisTournaments() resolves with n
\* tournaments; none ends the cycle, else launchBrowser() is called
DiscoverDone(c, n) ==
    /\ cyc[c].pc = "discover"
    /\ LET cur == [cyc[c] EXCEPT !.tournaments = TournamentList(n)]
       IN IF n = 0
          THEN End(c, cur, "empty", browser)
          ELSE /\ IF browser # 0
                  THEN CallNewPage(c, cur, browser)
                  ELSE cyc' = [cyc EXCEPT ![c] = [cur EXCEPT !.pc = "launching"]]
               /\ UNCHANGED ended
    /\ UNCHANGED <<browser, chrome, track, unhandled, seen, pt>>

\* The answers of the nav API drawn in the cycle specifications: the plain
\* ones and the catalogs of one sport group whose tournaments, when some are
\* returned, are numbered 1..n in catalog order.
CycleNavResponses ==
    PlainNavResponses
    \cup {res \in {NavResponse(TRUE, "groups", GroupList(<<h>>, 1, cs, <<>>)) :
                    h \in GroupHeads,
                    cs \in UNION {ChildLists(n) : n \in 0..MaxTournaments}} :
            LET list == fetchTennisTournaments(res).list
            IN \A i \in DOMAIN list : list[i].eventGroupId = i}

\* transformer.ts:493-503, 538-541  the nav API answers: what
\* fetchTennisTournaments throws reaches the catch block of scrape(), what it
\* returns is the list of the cycle. With track set, `call` keeps the answer
\* of a cycle that ends here.
Discover(c, res) ==
    /\ cyc[c].pc = "discover"
    /\ LET out == fetchTennisTournaments(res)
       IN /\ IF out.threw
             THEN Catch(c, cyc[c]) /\ UNCHANGED <<track, unhandled, seen, pt>>
             ELSE DiscoverDone(c, Len(out.list))
          /\ call' = IF track /\ (out.threw \/ out.list = <<>>)
                     THEN [fn |-> "fetchTennisTournaments", arg |-> res,
                           ret |-> out, done |-> TRUE]
                     ELSE NoCall

\* draftkings.ts:20-32  puppeteer.launch() resolves: a new Chrome process,
\* assigned to the module-level browser; then createDKPage() (49-52)
LaunchDone(c) ==
    /\ cyc[c].pc = "launching"
    /\ \E i \in Insts :
        /\ chrome[i] = "none"
        /\ \A j \in Insts : j < i => chrome[j] # "none"
        /\ chrome' = [chrome EXCEPT ![i] = "running"]
        /\ browser' = i
        /\ CallNewPage(c, cyc[c], i)
    /\ UNCHANGED <<ended, track, unhandled, seen, pt, call>>

\* The page of a cycle answers while its Chrome process runs.
PageAlive(cur) == cur.page # 0 /\ chrome[cur.page] = "running"

\* draftkings.ts:52-61  newPage, setViewport, setUserAgent and
\* evaluateOnNewDocument resolve in turn; after the last, the homepage
\* page.goto (65) is issued
PageSetupPcs == {"newPage", "viewport", "userAgent", "stealth"}

\* the same with the homepage load issued before the stealth script is set
NextSetupPc_GotoBeforeStealth(p) ==
    CASE p = "newPage" -> "viewport"
      [] p = "viewport" -> "userAgent"
      [] p = "userAgent" -> "homeGoto"
      [] p = "stealth" -> "homeGoto"

NextSetupPc(p) ==
    CASE p = "newPage" -> "viewport"
      [] p = "viewport" -> "userAgent"
      [] p = "userAgent" -> "stealth"
      [] p = "stealth" -> "homeGoto"

\* A navigation as the page sees it: what was issued, for which tournament
\* (0: none), whether a response handler was registered at that moment, and
\* whether the map held a payload of that tournament then.
Nav(cur, kind, tid) ==
    [kind |-> kind, tid |-> tid, observed |-> cur.handlerOn,
     satisfied |-> MapHas(cur.results, tid)]

PageSetupDone(c) ==
    /\ cyc[c].pc \in PageSetupPcs
    /\ PageAlive(cyc[c])
    /\ LET cur == cyc[c]
           q == NextSetupPc(cur.pc)
       IN cyc' = [cyc EXCEPT ![c] =
                    [cur EXCEPT !.pc = q,
                                !.pageCfg = IF cur.pc = "newPage" THEN {}
                                            ELSE cur.pageCfg \cup {cur.pc},
                                !.navs = IF q = "homeGoto"
                                         THEN Append(cur.navs, Nav(cur, "home", 0))
                                         ELSE cur.navs]]
    /\ UNCHANGED <<browser, chrome, ended, track, unhandled, seen, pt, call>>

\* draftkings.ts:65-69  the homepage load resolves; a 5 s timer follows
HomeGotoDone(c) ==
    /\ cyc[c].pc = "homeGoto"
    /\ PageAlive(cyc[c])
    /\ cyc' = [cyc EXCEPT ![c].pc = "homeSettle"]
    /\ UNCHANGED <<browser, chrome, ended, track, unhandled, seen, pt, call>>

\* draftkings.ts:69-71  the timer fires; page.cookies() is awaited
HomeSettleDone(c) ==
    /\ cyc[c].pc = "homeSettle"
    /\ cyc' = [cyc EXCEPT ![c].pc = "cookies"]
    /\ UNCHANGED <<browser, chrome, ended, track, unhandled, seen, pt, call>>

\* The registration left out (or made after the navigations).
RegisterHandler_Late(cur) == cur

\* draftkings.ts:292  page.on("response", handler)
RegisterHandler(cur) == [cur EXCEPT !.handlerOn = TRUE]

\* draftkings.ts:71-76, transformer.ts:507, draftkings.ts:209-296: the
\* cookies arrive, createDKPage returns the page, fetchAllTournamentOdds
\* starts: empty results, the handler is registered, the link scan is awaited
CaptureStart(c) ==
    /\ cyc[c].pc = "cookies"
    /\ PageAlive(cyc[c])
    /\ cyc' = [cyc EXCEPT ![c] =
                 [RegisterHandler([cyc[c] EXCEPT !.results = {}])
                    EXCEPT !.pc = "scanLinks"]]
    /\ UNCHANGED <<browser, chrome, ended, track, unhandled, seen, pt, call>>

\* transformer.ts:512-522  the records of the cycle: for each tournament with
\* a payload in the map, the records that payload normalizes to
RECURSIVE CountEvents(_, _, _)
CountEvents(tournaments, results, i) ==
    IF i > Len(tournaments) THEN 0
    ELSE (IF MapHas(results, tournaments[i])
          THEN MapGet(results, tournaments[i]).recs ELSE 0)
         + CountEvents(tournaments, results, i + 1)

\* draftkings.ts:446  page.off("response", handler)
RemoveHandler(cur) == [cur EXCEPT !.handlerOn = FALSE]

\* draftkings.ts:446-467, transformer.ts:507-525: the handler is removed, the
\* map is returned, every tournament's payload is normalized and page.close()
\* is awaited
FinishCapture(c, cur) ==
    cyc' = [cyc EXCEPT ![c] =
              [RemoveHandler(cur) EXCEPT
                 !.pc = "pageClose", !.capDone = "returned",
                 !.allEvents = CountEvents(cur.tournaments, cur.results, 1)]]

\* draftkings.ts:385-395  with a requested tournament still missing, the
\* links of the page are read; else the capture finishes
Step3(c, cur) ==
    IF Cardinality(cur.results) < Cardinality(TargetIdsOf(cur.tournaments))
    THEN cyc' = [cyc EXCEPT ![c] = [cur EXCEPT !.pc = "pageLinks"]]
    ELSE FinishCapture(c, cur)

\* draftkings.ts:334-353  the link scan resolves: with a tennis link its URL
\* is loaded, without one the click on a Tennis element is evaluated
ScanLinksDone(c, tennisLink) ==
    /\ cyc[c].pc = "scanLinks"
    /\ PageAlive(cyc[c])
    /\ LET cur == cyc[c]
       IN IF tennisLink
          THEN cyc' = [cyc EXCEPT ![c] =
                         [cur EXCEPT !.pc = "primaryGoto",
                                     !.navs = Append(cur.navs, Nav(cur, "primary", 0))]]
          ELSE cyc' = [cyc EXCEPT ![c] = [cur EXCEPT !.pc = "clickEval"]]
    /\ UNCHANGED <<browser, chrome, ended, track, unhandled, seen, pt, call>>

\* draftkings.ts:344-348  the tennis page load resolves; a 10 s timer follows
PrimaryGotoDone(c) ==
    /\ cyc[c].pc = "primaryGoto"
    /\ PageAlive(cyc[c])
    /\ cyc' = [cyc EXCEPT ![c].pc = "primarySettle"]
    /\ UNCHANGED <<browser, chrome, ended, track, unhandled, seen, pt, call>>

\* draftkings.ts:353-377  the click evaluation resolves: after a click a
\* 10 s timer follows, else step 3 starts at once
ClickEvalDone(c, clicked) ==
    /\ cyc[c].pc = "clickEval"
    /\ PageAlive(cyc[c])
    /\ LET cur == cyc[c]
       IN IF clicked
          THEN cyc' = [cyc EXCEPT ![c] =
                         [cur EXCEPT !.pc = "clickSettle",
                                     !.navs = Append(cur.navs, Nav(cur, "click", 0))]]
          ELSE Step3(c, cur)
    /\ UNCHANGED <<browser, chrome, ended, track, unhandled, seen, pt, call>>

\* draftkings.ts:348-349, 373-374  the timer after the tennis navigation fires
PrimarySettleDone(c) ==
    /\ cyc[c].pc \in {"primarySettle", "clickSettle"}
    /\ Step3(c, cyc[c])
    /\ UNCHANGED <<browser, chrome, ended, track, unhandled, seen, pt, call>>

\* draftkings.ts:417  if (results.has(tournament.eventGroupId)) continue
SkipTournament(cur, j) == MapHas(cur.results, cur.tournaments[j])

\* draftkings.ts:416-443  the loop from tournament cur.idx on: the tournaments
\* with a payload are skipped, and so are those without a matching link; the
\* page of the first other one, j, is loaded (j = 0: there is none and the
\* capture finishes). Which tournaments have a link is the page's choice.
SecondaryLoop(c, cur, j) ==
    IF j = 0
    THEN FinishCapture(c, cur)
    ELSE /\ j \in cur.idx..Len(cur.tournaments)
         /\ ~SkipTournament(cur, j)
         /\ cyc' = [cyc EXCEPT ![c] =
                      [cur EXCEPT !.pc = "secGoto", !.idx = j + 1,
                                  !.navs = Append(cur.navs,
                                              Nav(cur, "secondary", cur.tournaments[j]))]]

\* draftkings.ts:387-416  the links of the page arrive and the loop starts
PageLinksDone(c, j) ==
    /\ cyc[c].pc = "pageLinks"
    /\ PageAlive(cyc[c])
    /\ SecondaryLoop(c, [cyc[c] EXCEPT !.idx = 1], j)
    /\ UNCHANGED <<browser, chrome, ended, track, unhandled, seen, pt, call>>

\* draftkings.ts:436-440  a tournament page load resolves; a 10 s timer follows
SecGotoDone(c) ==
    /\ cyc[c].pc = "secGoto"
    /\ PageAlive(cyc[c])
    /\ cyc' = [cyc EXCEPT ![c].pc = "secSettle"]
    /\ UNCHANGED <<browser, chrome, ended, track, unhandled, seen, pt, call>>

\* draftkings.ts:440-443  the timer fires and the loop goes on
SecSettleDone(c, j) ==
    /\ cyc[c].pc = "secSettle"
    /\ SecondaryLoop(c, cyc[c], j)
    /\ UNCHANGED <<browser, chrome, ended, track, unhandled, seen, pt, call>>

\* page.close() followed by an upload whatever the record list holds
PageCloseDone_AlwaysUploads(c) ==
    /\ cyc[c].pc = "pageClose"
    /\ PageAlive(cyc[c])
    /\ cyc' = [cyc EXCEPT ![c] = [cyc[c] EXCEPT !.page = 0, !.pc = "upload"]]
    /\ UNCHANGED <<browser, chrome, ended, track, unhandled, seen, pt, call>>

\* transformer.ts:525-537  page.close() resolves; the records are uploaded
\* when there are some, else the cycle is complete
PageCloseDone(c) ==
    /\ cyc[c].pc = "pageClose"
    /\ PageAlive(cyc[c])
    /\ LET cur == [cyc[c] EXCEPT !.page = 0]
       IN IF cur.allEvents > 0
          THEN /\ cyc' = [cyc EXCEPT ![c] = [cur EXCEPT !.pc = "upload"]]
               /\ UNCHANGED ended
          ELSE End(c, cur, "ok", browser)
    /\ UNCHANGED <<browser, chrome, track, unhandled, seen, pt, call>>

\* uploader.ts:18-35, transformer.ts:531-537  the upload succeeds
UploadDone(c) ==
    /\ cyc[c].pc = "upload"
    /\ End(c, cyc[c], "ok", browser)
    /\ UNCHANGED <<browser, chrome, track, unhandled, seen, pt, call>>

\* The awaits that may reject: the discovery fetch (draftkings.ts:137-142),
\* puppeteer.launch (20), the page calls (52-71), the evaluations (296, 353,
\* 387), the navigations (344, 436), page.close (transformer.ts:525) and the
\* upload (uploader.ts:18-30).
CaptureGotoPcs == {"primaryGoto", "secGoto"}
CaptureEvalPcs == {"scanLinks", "clickEval", "pageLinks"}
RejectPcs ==
    {"discover", "launching", "homeGoto", "cookies", "pageClose", "upload"}
    \cup PageSetupPcs \cup CaptureGotoPcs \cup CaptureEvalPcs

\* draftkings.ts:344-347, 436-439: nothing catches what page.goto throws
\* inside fetchAllTournamentOdds: the call ends there, with what it leaves
CaptureThrow(cur) ==
    IF cur.pc \in CaptureGotoPcs THEN [cur EXCEPT !.capDone = "navThrew"]
    ELSE IF cur.pc \in CaptureEvalPcs THEN [cur EXCEPT !.capDone = "evalThrew"]
    ELSE cur

\* transformer.ts:538-541  an awaited call rejects: the catch block runs
AwaitRejects(c) ==
    /\ cyc[c].pc \in RejectPcs
    /\ Catch(c, CaptureThrow(cyc[c]))
    /\ UNCHANGED <<track, unhandled, seen, pt, call>>

\* draftkings.ts:37-39  browser.close() resolves: browser = null, and the
\* cycle ends
CloseDone(c) ==
    /\ cyc[c].pc = "closing"
    /\ chrome' = [chrome EXCEPT ![cyc[c].closing] = "closed"]
    /\ browser' = 0
    /\ End(c, cyc[c], "error", 0)
    /\ UNCHANGED <<track, unhandled, seen, pt, call>>

\* draftkings.ts:37, transformer.ts:541  browser.close() rejects: closeBrowser
\* and then scrape() reject, browser keeps its value
CloseRejects(c) ==
    /\ cyc[c].pc = "closing"
    /\ End(c, cyc[c], "rejected", browser)
    /\ UNCHANGED <<browser, chrome, track, unhandled, seen, pt, call>>

\* draftkings.ts:213-237  a response event on the page with the handler
\* registered: the filters, then resp.json() is awaited
Respond(c, r) ==
    /\ cyc[c].pc \notin {"idle", "closing"}
    /\ cyc[c].handlerOn
    /\ PageAlive(cyc[c])
    /\ IF HandlerStage(r) = "parse"
       THEN /\ Cardinality(cyc[c].pending) < MaxPending
            /\ cyc' = [cyc EXCEPT ![c].pending = @ \cup {r}]
       ELSE UNCHANGED cyc
    /\ UNCHANGED <<browser, chrome, ended, track, unhandled, pt, call>>

\* draftkings.ts:237-289  resp.json() settles and the rest of the handler runs
HandlerFinish(c, r) ==
    /\ r \in cyc[c].pending
    /\ LET out == HandlerTry(r, TargetIdsOf(cyc[c].tournaments), cyc[c].results)
       IN /\ cyc' = [cyc EXCEPT ![c].pending = @ \ {r}, ![c].results = out.results]
          /\ unhandled' = (unhandled \/ (out.threw /\ HandlerCatch(out.threw)))
    /\ UNCHANGED <<browser, chrome, ended, track, pt, call>>

CycleStep(c) ==
    \/ Trigger(c)
    \/ \E res \in CycleNavResponses : Discover(c, res)
    \/ LaunchDone(c)
    \/ PageSetupDone(c)
    \/ HomeGotoDone(c)
    \/ HomeSettleDone(c)
    \/ CaptureStart(c)
    \/ \E b \in BOOLEAN : ScanLinksDone(c, b)
    \/ PrimaryGotoDone(c)
    \/ \E b \in BOOLEAN : ClickEvalDone(c, b)
    \/ PrimarySettleDone(c)
    \/ \E j \in 0..MaxTournaments : PageLinksDone(c, j)
    \/ SecGotoDone(c)
    \/ \E j \in 0..MaxTournaments : SecSettleDone(c, j)
    \/ PageCloseDone(c)
    \/ UploadDone(c)
    \/ AwaitRejects(c)
    \/ CloseDone(c)
    \/ CloseRejects(c)
    \/ \E r \in CycleResponses : Respond(c, r) /\ UNCHANGED seen
    \/ \E r \in cyc[c].pending : HandlerFinish(c, r) /\ UNCHANGED seen

Next == \E c \in Cycles : CycleStep(c)

Spec == Init /\ [][Next]_vars

\* One scrape() call at a time: the cycles as a scheduler that serializes
\* them would run them.
NextCycle == CycleStep(1)

SpecCycle == Init /\ [][NextCycle]_vars

\* The same with `ended` and `call` kept: how the last scrape() call ended.
InitTracked ==
    /\ browser = 0
    /\ chrome = [i \in Insts |-> "none"]
    /\ cyc = [c \in Cycles |-> InitCycle]
    /\ ended = NoEnd
    /\ track = TRUE
    /\ unhandled = FALSE
    /\ seen = NoSeen
    /\ pt = InitPt
    /\ call = NoCall

SpecTracked == InitTracked /\ [][NextCycle]_vars

\* draftkings.ts:49-52  createDKPage() as a call of its own: it throws
\* "Browser not launched" when the module-level browser is null, before any
\* page is made, and else calls browser.newPage(). In scrape() the throw
\* reaches the catch block.
CreateDKPage(c) ==
    /\ cyc[c].pc = "createPage"
    /\ IF browser = 0
       THEN Catch(c, cyc[c])
       ELSE CallNewPage(c, cyc[c], browser) /\ UNCHANGED <<browser, chrome, ended>>
    /\ UNCHANGED <<track, unhandled, seen, pt, call>>

\* The page specification: createDKPage is exported, and is called here by
\* a cycle with a session (the first browser) and with none; the cycle and
\* those after it run on from there.
InitPage ==
    /\ browser \in {0, 1}
    /\ chrome = [i \in Insts |-> IF i = browser THEN "running" ELSE "none"]
    /\ \E n \in 1..MaxTournaments :
          cyc = [c \in Cycles |->
                   IF c = 1
                   THEN [InitCycle EXCEPT !.pc = "createPage",
                                          !.tournaments = TournamentList(n)]
                   ELSE InitCycle]
    /\ ended = NoEnd
    /\ track = TRUE
    /\ unhandled = FALSE
    /\ seen = NoSeen
    /\ pt = InitPt
    /\ call = NoCall

SpecPage == InitPage /\ [][CreateDKPage(1) \/ NextCycle]_vars

\* ------------------------------------- fetchTournamentOdds (per tournament)
\* part_001:191-192  the URL test of the handler: url.includes(
\* `/eventgroups/${eventGroupId}`), a substring test, so that the id need only
\* be a decimal prefix of the id in the URL
RECURSIVE IsDecimalPrefix(_, _)
IsDecimalPrefix(a, b) ==
    IF a = b THEN TRUE
    ELSE IF b < 10 THEN FALSE
    ELSE IsDecimalPrefix(a, b \div 10)

UrlIncludesPattern(r, eventGroupId) ==
    r.url = "api" /\ r.urlEg > 0 /\ IsDecimalPrefix(eventGroupId, r.urlEg)

\* part_001:210-220  the filters of the handler, in the code's order
PtHandlerStage(r, eventGroupId) ==
    IF ~UrlIncludesPattern(r, eventGroupId) THEN "url"
    ELSE IF r.status # HTTP_OK THEN "status"
    ELSE "parse"

\* part_001:228-230  catch {}: whether the exception leaves the handler
PtHandlerCatch(threw) == FALSE

\* part_001:223  if (json?.eventGroup)
PtAccepts(body) == body.kind = "object" /\ body.eg

\* The responses drawn for fetchTournamentOdds: /eventgroups/ URLs of the
\* requested ids, of a longer id and of no id; the handler reads neither the
\* content type nor the asset class.
PtResponses ==
    {r \in Responses :
        /\ r.url = "api" /\ r.ct = "json"
        /\ r.urlEg <= MaxTargets \/ r.urlEg = MaxUrlEg
        /\ r.status \in {HTTP_OK, Non2xxStatus}
        /\ r.body.kind \in {"garbage", "object"}
        /\ r.body.recs = (IF r.body.eg THEN MaxRecs ELSE 0)}

\* part_001:187-241  the call: the promise is created, the 30 s timer set, the
\* handler registered, and page.goto is awaited
PtCall ==
    /\ pt.pc = "call"
    /\ pt' = [pt EXCEPT !.pc = "goto", !.handlerOn = TRUE, !.timeout = "set",
                        !.navs = 1]
    /\ UNCHANGED <<browser, chrome, cyc, ended, track, unhandled, seen, call>>

\* part_001:209-222  a response event with the handler registered
PtRespond(r) ==
    /\ pt.pc \in {"goto", "wait", "done"}
    /\ pt.handlerOn
    /\ IF PtHandlerStage(r, pt.eventGroupId) = "parse"
       THEN /\ Cardinality(pt.pending) < MaxPending
            /\ pt' = [pt EXCEPT !.pending = @ \cup {r}]
       ELSE UNCHANGED pt
    /\ UNCHANGED <<browser, chrome, cyc, ended, track, unhandled, seen, call>>

\* part_001:224-226  clearTimeout(timeout); page.off("response", handler);
\* resolve(json): a promise that is settled stays as it is
PtAccept(p, body) ==
    [p EXCEPT !.timeout = IF @ = "set" THEN "cleared" ELSE @,
              !.handlerOn = FALSE,
              !.promise = IF @ = "pending" THEN "json" ELSE @,
              !.value = IF p.promise = "pending" THEN body ELSE @]

\* part_001:222-230  response.json() settles: a parse error is caught, a
\* document with an eventGroup member is accepted
PtHandlerFinish(r) ==
    /\ r \in pt.pending
    /\ LET p == [pt EXCEPT !.pending = @ \ {r}]
       IN pt' = IF ~JsonThrows(r.body) /\ PtAccepts(r.body)
                THEN PtAccept(p, r.body) ELSE p
    /\ unhandled' = (unhandled \/ (JsonThrows(r.body) /\ PtHandlerCatch(TRUE)))
    /\ UNCHANGED <<browser, chrome, cyc, ended, track, seen, call>>

\* part_001:202-207  the 30 s timer fires: resolve(null)
PtTimeout ==
    /\ pt.timeout = "set"
    /\ pt' = [pt EXCEPT !.timeout = "fired",
                        !.promise = IF @ = "pending" THEN "null" ELSE @]
    /\ UNCHANGED <<browser, chrome, cyc, ended, track, unhandled, seen, call>>

\* part_001:238-244  page.goto resolves; the promise is awaited
PtGotoDone ==
    /\ pt.pc = "goto"
    /\ pt' = [pt EXCEPT !.pc = "wait"]
    /\ UNCHANGED <<browser, chrome, cyc, ended, track, unhandled, seen, call>>

\* part_001:238, 260-263  page.goto rejects: the catch block returns null
PtGotoRejects ==
    /\ pt.pc = "goto"
    /\ pt' = [pt EXCEPT !.pc = "done", !.ret = "null"]
    /\ UNCHANGED <<browser, chrome, cyc, ended, track, unhandled, seen, call>>

\* part_001:244-259  the promise is settled: null or the payload is returned
PtReturn ==
    /\ pt.pc = "wait"
    /\ pt.promise # "pending"
    /\ pt' = [pt EXCEPT !.pc = "done", !.ret = pt.promise]
    /\ UNCHANGED <<browser, chrome, cyc, ended, track, unhandled, seen, call>>

\* --------------------------------------------- the observer specification
\* The responses drawn for the handler of fetchAllTournamentOdds, which reads
\* neither the id in the URL nor the events of the payload.
AllResponses ==
    {r \in Responses :
        /\ r.urlEg = 0
        /\ r.body.recs = (IF r.body.eg THEN MaxRecs ELSE 0)}

AllPageCfg == {"viewport", "userAgent", "stealth"}

\* A capture of fetchAllTournamentOdds for n tournaments, waiting after its
\* tennis navigation (draftkings.ts:348) on the first browser.
InitObserveAll ==
    /\ browser = 1
    /\ chrome = [i \in Insts |-> IF i = 1 THEN "running" ELSE "none"]
    /\ \E n \in 1..MaxTargets :
        cyc = [c \in Cycles |->
                 IF c = 1
                 THEN [InitCycle EXCEPT
                         !.pc = "primarySettle", !.tournaments = TournamentList(n),
                         !.page = 1, !.pageCfg = AllPageCfg, !.handlerOn = TRUE,
                         !.navs = <<[kind |-> "home", tid |-> 0, observed |-> FALSE,
                                     satisfied |-> FALSE],
                                    [kind |-> "primary", tid |-> 0, observed |-> TRUE,
                                     satisfied |-> FALSE]>>]
                 ELSE InitCycle]
    /\ pt = InitPt

\* A page made by createDKPage (part_001:48-64) and a fetchTournamentOdds call
\* about to be made on it.
InitObservePt ==
    /\ browser = 1
    /\ chrome = [i \in Insts |-> IF i = 1 THEN "running" ELSE "none"]
    /\ cyc = [c \in Cycles |-> InitCycle]
    /\ \E id \in 1..MaxTargets : pt = [InitPt EXCEPT !.pc = "call", !.eventGroupId = id]

InitObserver ==
    /\ InitObserveAll \/ InitObservePt
    /\ ended = NoEnd
    /\ track = FALSE
    /\ unhandled = FALSE
    /\ seen = NoSeen
    /\ call = NoCall

\* One response at a time is followed through the handler here; the cycle
\* specification interleaves the invocations.
ObserverRespond(r) ==
    /\ cyc[1].pending = {}
    /\ Respond(1, r)
    /\ seen' = [r |-> r, stage |-> HandlerStage(r),
                parsed |-> (r \in cyc'[1].pending),
                changed |-> (cyc'[1].results # cyc[1].results)]

ObserverFinish(r) ==
    /\ HandlerFinish(1, r)
    /\ seen' = [r |-> r, stage |-> "parse", parsed |-> TRUE,
                changed |-> (cyc'[1].results # cyc[1].results)]

NextObserver ==
    \/ \E r \in AllResponses : ObserverRespond(r)
    \/ \E r \in cyc[1].pending : ObserverFinish(r)
    \/ PtCall
    \/ \E r \in PtResponses : PtRespond(r)
    \/ \E r \in pt.pending : PtHandlerFinish(r)
    \/ PtTimeout
    \/ PtGotoDone
    \/ PtGotoRejects
    \/ PtReturn

SpecObserver == InitObserver /\ [][NextObserver]_vars

\* ---------------------------------------------------------- odds strings
\* transformer.ts, first part (the normalizer of the flat payload) and second
\* part (the normalizer of the grouped payload). Both parts define
\* parseAmericanOdds; they are told apart here by a suffix.

MaxOddsLen == 4       \* characters of an odds string
MaxDecimal == 260     \* largest decimal odds, in hundredths (2.60)

\* `number | null`: a number n is the 1-tuple <<n>>, null is the empty tuple,
\* and NaN is a tuple that is neither.
Null == <<>>
Num(n) == <<n>>
NaN == <<0, 0>>

\* a ?? b
Coalesce(a, b) == IF a = Null THEN b ELSE a

\* A string is the sequence of its characters; "U+2212" is the mathematical
\* minus sign. Undefined is the value of a missing property: no string.
OddsChars == {"+", "-", "U+2212", " ", "0", "1", "E", "V", "N", "e"}
Undefined == <<"undefined">>

IsDigit(ch) == ch \in {"0", "1", "2", "5"}
DigitValue(ch) == CASE ch = "0" -> 0 [] ch = "1" -> 1 [] ch = "2" -> 2 [] ch = "5" -> 5

\* String.prototype.toUpperCase on the characters above
OddsToUpperCase(str) == [i \in DOMAIN str |-> IF str[i] = "e" THEN "E" ELSE str[i]]

RECURSIVE TrimStart(_)
TrimStart(str) ==
    IF str # <<>> /\ Head(str) = " " THEN TrimStart(Tail(str)) ELSE str

RECURSIVE ReadDigits(_, _)
ReadDigits(str, acc) ==
    IF str # <<>> /\ IsDigit(Head(str))
    THEN ReadDigits(Tail(str), 10 * acc + DigitValue(Head(str)))
    ELSE acc

\* parseInt(str, 10): leading white space is skipped, then an optional ASCII
\* sign, then decimal digits as far as they go; what follows is ignored, and
\* without a digit the result is NaN.
parseInt(str) ==
    LET t == TrimStart(str)
        signed == t # <<>> /\ Head(t) \in {"+", "-"}
        u == IF signed THEN Tail(t) ELSE t
    IN IF u = <<>> \/ ~IsDigit(Head(u))
       THEN NaN
       ELSE IF signed /\ Head(t) = "-"
            THEN Num(0 - ReadDigits(u, 0))
            ELSE Num(ReadDigits(u, 0))

\* transformer.ts:45  .replace(/−/g, "-").replace(/+/g, "+");
\* U+002B is the ASCII plus sign itself.
NormalizeUnicode(str) == [i \in DOMAIN str |-> IF str[i] = "U+2212" THEN "-" ELSE str[i]]

EVEN == <<"E", "V", "E", "N">>

\* the same function without the replacement of line 45
parseAmericanOddsFlat_NoNormalize(oddsStr) ==
    IF oddsStr = Undefined \/ oddsStr = <<>> THEN Null
    ELSE IF OddsToUpperCase(oddsStr) = EVEN THEN Num(100)
    ELSE LET num == parseInt(oddsStr)
         IN IF num = NaN THEN Null ELSE num

\* transformer.ts:41-48  parseAmericanOdds of the flat normalizer
parseAmericanOddsFlat(oddsStr) ==
    IF oddsStr = Undefined \/ oddsStr = <<>> THEN Null
    ELSE IF OddsToUpperCase(oddsStr) = EVEN THEN Num(100)
    ELSE LET num == parseInt(NormalizeUnicode(oddsStr))
         IN IF num = NaN THEN Null ELSE num

\* transformer.ts:265-271  parseAmericanOdds of the grouped normalizer
parseAmericanOddsGrouped(oddsStr) ==
    IF oddsStr = Undefined \/ oddsStr = <<>> THEN Null
    ELSE IF OddsToUpperCase(oddsStr) = EVEN THEN Num(100)
    ELSE LET num == parseInt(oddsStr)
         IN IF num = NaN THEN Null ELSE num

\* Math.round of the rational p / q, q > 0: the nearest integer, a half
\* going up.
MathRound(p, q) == (2 * p + q) \div (2 * q)

\* the same function with the two branches exchanged
americanFromDecimal_Swapped(decimal) ==
    IF decimal < 200
    THEN MathRound((decimal - 100) * 100, 100)
    ELSE MathRound(0 - 100 * 100, decimal - 100)

\* transformer.ts:255-260  americanFromDecimal; decimal is in hundredths, so
\* (decimal - 1) * 100 is (h - 100) * 100 / 100 and -100 / (decimal - 1) is
\* -10000 / (h - 100).
americanFromDecimal(decimal) ==
    IF decimal >= 200
    THEN MathRound((decimal - 100) * 100, 100)
    ELSE MathRound(0 - 100 * 100, decimal - 100)

\* transformer.ts:337-340 (and 344-347, 353-356, 358-361)
\*   parseAmericanOdds(o.oddsAmerican) ?? (o.oddsDecimal ? americanFromDecimal(o.oddsDecimal) : null)
\* oddsDecimal 0 stands for a missing or zero value.
outcomeOdds(o) ==
    Coalesce(parseAmericanOddsGrouped(o.oddsAmerican),
             IF o.oddsDecimal # 0 THEN Num(americanFromDecimal(o.oddsDecimal)) ELSE Null)

\* odds strings that occur in payloads
SampleOdds ==
    { Undefined, <<>>, EVEN, <<"e", "V", "E", "N">>, <<"+", "1", "0", "0">>,
      <<"-", "1", "1", "0">>, <<"U+2212", "1", "1", "0">>, <<"1", "1", "0">>,
      <<"N", "1">> }

OddsCall(fn, arg) ==
    [fn |-> fn, arg |-> arg, ret |-> Null, done |-> FALSE, threw |-> FALSE]

\* The odds specification: one call of one of the odds functions: a parser
\* on no string or on any string of at most MaxOddsLen characters, the
\* conversion on any decimal above 1.00 on the grid of hundredths, the odds
\* of an outcome on a sample string and such a decimal (or none).
InitOdds ==
    /\ browser = 0
    /\ chrome = [i \in Insts |-> "none"]
    /\ cyc = [c \in Cycles |-> InitCycle]
    /\ ended = NoEnd
    /\ track = FALSE
    /\ unhandled = FALSE
    /\ seen = NoSeen
    /\ pt = InitPt
    /\ \/ \E fn \in {"parseAmericanOddsFlat", "parseAmericanOddsGrouped"} :
             \/ call = OddsCall(fn, Undefined)
             \/ \E n \in 0..MaxOddsLen : \E str \in [1..n -> OddsChars] :
                   call = OddsCall(fn, str)
       \/ \E d \in 101..MaxDecimal : call = OddsCall("americanFromDecimal", d)
       \/ \E str \in SampleOdds, d \in {0} \cup 101..MaxDecimal :
             call = OddsCall("outcomeOdds", [oddsAmerican |-> str, oddsDecimal |-> d])

ParseFlatReturns ==
    /\ call.fn = "parseAmericanOddsFlat" /\ ~call.done
    /\ call' = [call EXCEPT !.ret = parseAmericanOddsFlat(call.arg), !.done = TRUE]
    /\ UNCHANGED <<browser, chrome, cyc, ended, track, unhandled, seen, pt>>

ParseGroupedReturns ==
    /\ call.fn = "parseAmericanOddsGrouped" /\ ~call.done
    /\ call' = [call EXCEPT !.ret = parseAmericanOddsGrouped(call.arg), !.done = TRUE]
    /\ UNCHANGED <<browser, chrome, cyc, ended, track, unhandled, seen, pt>>

FromDecimalReturns ==
    /\ call.fn = "americanFromDecimal" /\ ~call.done
    /\ call' = [call EXCEPT !.ret = Num(americanFromDecimal(call.arg)), !.done = TRUE]
    /\ UNCHANGED <<browser, chrome, cyc, ended, track, unhandled, seen, pt>>

OutcomeOddsReturns ==
    /\ call.fn = "outcomeOdds" /\ ~call.done
    /\ call' = [call EXCEPT !.ret = outcomeOdds(call.arg), !.done = TRUE]
    /\ UNCHANGED <<browser, chrome, cyc, ended, track, unhandled, seen, pt>>

NextOdds ==
    \/ ParseFlatReturns
    \/ ParseGroupedReturns
    \/ FromDecimalReturns
    \/ OutcomeOddsReturns

SpecOdds == InitOdds /\ [][NextOdds]_vars

\* ------------------------------------------------------------ normalizers
\* transformer.ts:60-209 (flat payload: events, markets, selections) and
\* transformer.ts:277-471 (grouped payload: events and offers of one event
\* group). Both parts define transformDKResponse; they are told apart here by
\* a suffix. A record is modelled by its external id, its two names, its
\* start time and its six odds fields; the abbreviations and the constant
\* fields are left out. The argument of a call is the payload together with
\* the clock: now is the instant of the call and at the instant that
\* new Date() reads in the loop.

MaxEvents == 2        \* events of a payload
MaxTime == 2          \* instants
MaxMarkets == 2       \* markets (flat) or offers (grouped) of a payload
MaxSels == 2          \* selections of a market, outcomes of an offer

\* "TBD"
TBD == <<Capital("tbd")>>

\* Array.prototype.find, given for each element whether it passes the test:
\* the index of the first that passes, 0 when there is none
Find(hits) ==
    IF \E i \in DOMAIN hits : hits[i]
    THEN CHOOSE i \in DOMAIN hits : hits[i] /\ \A j \in 1..(i - 1) : ~hits[j]
    ELSE 0

\* name.split(/\s+v[s.]?\s+/i): the words between the separators. A
\* separator is a word v, vs or v. in any case with white space on both
\* sides that no earlier separator has taken.
RECURSIVE SplitFrom(_, _, _, _)
SplitFrom(name, i, piece, pieces) ==
    IF i > Len(name) THEN Append(pieces, piece)
    ELSE IF name[i].w \in {"v", "vs", "v."} /\ piece # <<>> /\ i < Len(name)
         THEN SplitFrom(name, i + 1, <<>>, Append(pieces, piece))
         ELSE SplitFrom(name, i + 1, Append(piece, name[i]), pieces)

\* transformer.ts:99-106, 438-445
\*   structured || event.name?.split(...)?.[k - 1]?.trim() || "TBD"
PlayerName(structured, name, k) ==
    IF structured # <<>> THEN structured
    ELSE LET pieces == SplitFrom(name, 1, <<>>, <<>>)
         IN IF k <= Len(pieces) /\ pieces[k] # <<>> THEN pieces[k] ELSE TBD

\* the same test for the first name only
BothNamed_HomeOnly(player1, player2) == player1 # TBD

\* transformer.ts:108, 448  the negation of
\*   if (player1 === "TBD" || player2 === "TBD") continue;
BothNamed(player1, player2) == player1 # TBD /\ player2 # TBD

\* transformer.ts:87-88, 434-435  startDate < new Date(); start is NaN for
\* an Invalid Date, which is below nothing
InPast(start, at) == start # NaN /\ start[1] < at

NoOdds ==
    [moneyline_home |-> Null, moneyline_away |-> Null,
     spread_home |-> Null, spread_away |-> Null,
     total_over |-> Null, total_under |-> Null]

\* label.includes(...) of lines 129-134 and 317-322, 151-155 and 367-371,
\* 168-172 and 390-394, on the lower-case name
IsMoneyline(lower) ==
    \/ Includes(lower, <<Lower("moneyline")>>)
    \/ Includes(lower, <<Lower("match"), Lower("winner")>>)
    \/ Includes(lower, <<Lower("winner")>>)
    \/ Includes(lower, <<Lower("match"), Lower("lines")>>)

IsSpread(lower) ==
    \/ Includes(lower, <<Lower("spread")>>)
    \/ Includes(lower, <<Lower("handicap")>>)
    \/ Includes(lower, <<Lower("game"), Lower("spread")>>)

IsTotal(lower) ==
    \/ Includes(lower, <<Lower("total")>>)
    \/ Includes(lower, <<Lower("over/under")>>)
    \/ Includes(lower, <<Lower("total"), Lower("games")>>)

\* x?.line ?? null, and (sels.length >= 2 ? sels[k]?.line ?? null : null)
LineAt(seq, i) == IF i \in DOMAIN seq THEN seq[i].line ELSE Null

\* transformer.ts:120-183  one market of the event, with its selections in
\* input order
FlatMarket(odds, market, sels) ==
    LET marketName == ToLowerCase(IF market.name # <<>> THEN market.name
                                  ELSE market.marketTypeName)
        home == Find([k \in DOMAIN sels |-> sels[k].outcomeType = "Home"])
        away == Find([k \in DOMAIN sels |-> sels[k].outcomeType = "Away"])
        over == Find([k \in DOMAIN sels |-> ToLowerCase(sels[k].label) = <<Lower("over")>>
                                        \/ sels[k].outcomeType = "Over"])
        under == Find([k \in DOMAIN sels |-> ToLowerCase(sels[k].label) = <<Lower("under")>>
                                         \/ sels[k].outcomeType = "Under"])
        American(i) == IF i \in DOMAIN sels THEN sels[i].american ELSE Undefined
        ByIndex(i) == IF Len(sels) >= 2 THEN LineAt(sels, i) ELSE Null
        mh == Coalesce(parseAmericanOddsFlat(American(home)), odds.moneyline_home)
        ma == Coalesce(parseAmericanOddsFlat(American(away)), odds.moneyline_away)
        o1 == IF ~IsMoneyline(marketName) THEN odds
              ELSE IF mh = Null /\ ma = Null /\ Len(sels) >= 2
                   THEN [odds EXCEPT !.moneyline_home = parseAmericanOddsFlat(American(1)),
                                     !.moneyline_away = parseAmericanOddsFlat(American(2))]
                   ELSE [odds EXCEPT !.moneyline_home = mh, !.moneyline_away = ma]
        o2 == IF ~IsSpread(marketName) THEN o1
              ELSE [o1 EXCEPT !.spread_home = Coalesce(LineAt(sels, home), ByIndex(1)),
                              !.spread_away = Coalesce(LineAt(sels, away), ByIndex(2))]
    IN IF ~IsTotal(marketName) THEN o2
       ELSE [o2 EXCEPT !.total_over = Coalesce(LineAt(sels, over), ByIndex(1)),
                       !.total_under = Coalesce(LineAt(sels, under), ByIndex(2))]

\* the same over every market of the payload, whatever its event
RECURSIVE FlatMarkets_OfAnyEvent(_, _, _, _)
FlatMarkets_OfAnyEvent(odds, markets, selections, eventId) ==
    IF markets = <<>> THEN odds
    ELSE LET market == Head(markets)
             sels == SelectSeq(selections, LAMBDA x : x.marketId = market.id)
         IN FlatMarkets_OfAnyEvent(FlatMarket(odds, market, sels),
                                   Tail(markets), selections, eventId)

\* transformer.ts:67-80, 118-120  the markets of the event in input order,
\* each with the selections of its id in input order
RECURSIVE FlatMarkets(_, _, _, _)
FlatMarkets(odds, markets, selections, eventId) ==
    IF markets = <<>> THEN odds
    ELSE LET market == Head(markets)
             sels == SelectSeq(selections, LAMBDA x : x.marketId = market.id)
         IN FlatMarkets(IF market.eventId = eventId
                        THEN FlatMarket(odds, market, sels) ELSE odds,
                        Tail(markets), selections, eventId)

\* Array.prototype.find on event.participants by venueRole, then ?.name
RoleName(participants, role) ==
    LET i == Find([k \in DOMAIN participants |-> participants[k].venueRole = role])
    IN IF i = 0 THEN <<>> ELSE participants[i].name

\* transformer.ts:82-203  the loop of the flat normalizer, from event i on
RECURSIVE FlatEvents(_, _, _)
FlatEvents(response, i, results) ==
    IF i > Len(response.events) THEN results
    ELSE LET event == response.events[i]
             player1 == PlayerName(RoleName(event.participants, "Home"), event.name, 1)
             player2 == PlayerName(RoleName(event.participants, "Away"), event.name, 2)
             skip == \/ event.status # "NOT_STARTED"
                     \/ InPast(event.start, response.at)
                     \/ ~BothNamed(player1, player2)
             record == [id |-> event.id, home |-> player1, away |-> player2,
                        start |-> event.start,
                        odds |-> FlatMarkets(NoOdds, response.markets,
                                             response.selections, event.id)]
         IN FlatEvents(response, i + 1,
                       IF skip THEN results ELSE Append(results, record))

\* transformer.ts:60-209  transformDKResponse of the flat normalizer
transformDKResponseFlat(response) == FlatEvents(response, 1, <<>>)

\* transformer.ts:299-407  one offer, in the order of the four nested loops;
\* offer.eventId is offer.eventId ?? parseInt(offer.providerEventId), and
\* offer.label is offer.label || descriptor.name
GroupedOffer(odds, offer, event) ==
    LET label == ToLowerCase(offer.label)
        outcomes == offer.outcomes
        p1 == Find([k \in DOMAIN outcomes |-> outcomes[k].participant = event.teamName1
                                          \/ outcomes[k].label = event.teamName1])
        p2 == Find([k \in DOMAIN outcomes |-> outcomes[k].participant = event.teamName2
                                          \/ outcomes[k].label = event.teamName2])
        over == Find([k \in DOMAIN outcomes |-> ToLowerCase(outcomes[k].label) = <<Lower("over")>>])
        under == Find([k \in DOMAIN outcomes |-> ToLowerCase(outcomes[k].label) = <<Lower("under")>>])
        mh == IF p1 # 0 THEN outcomeOdds(outcomes[p1]) ELSE odds.moneyline_home
        ma == IF p2 # 0 THEN outcomeOdds(outcomes[p2]) ELSE odds.moneyline_away
        o1 == IF ~IsMoneyline(label) THEN odds
              ELSE IF mh = Null /\ ma = Null
                   THEN [odds EXCEPT !.moneyline_home = outcomeOdds(outcomes[1]),
                                     !.moneyline_away = outcomeOdds(outcomes[2])]
                   ELSE [odds EXCEPT !.moneyline_home = mh, !.moneyline_away = ma]
        o2 == IF ~IsSpread(label) THEN o1
              ELSE [o1 EXCEPT !.spread_home = Coalesce(LineAt(outcomes, p1), LineAt(outcomes, 1)),
                              !.spread_away = Coalesce(LineAt(outcomes, p2), LineAt(outcomes, 2))]
        o3 == IF ~IsTotal(label) THEN o2
              ELSE [o2 EXCEPT !.total_over = Coalesce(LineAt(outcomes, over), LineAt(outcomes, 1)),
                              !.total_under = Coalesce(LineAt(outcomes, under), LineAt(outcomes, 2))]
    IN IF offer.eventId # event.id \/ offer.isSuspended \/ Len(outcomes) < 2
       THEN odds ELSE o3

\* transformer.ts:277-413  extractOddsForEvent, from the given offers on
RECURSIVE extractOddsForEvent(_, _, _)
extractOddsForEvent(odds, offers, event) ==
    IF offers = <<>> THEN odds
    ELSE extractOddsForEvent(GroupedOffer(odds, Head(offers), event),
                             Tail(offers), event)

\* transformer.ts:426-465  the loop of the grouped normalizer, from event i on
RECURSIVE GroupedEvents(_, _, _)
GroupedEvents(response, i, results) ==
    IF i > Len(response.events) THEN results
    ELSE LET event == response.events[i]
             player1 == PlayerName(event.teamName1, event.name, 1)
             player2 == PlayerName(event.teamName2, event.name, 2)
             skip == \/ event.status \in {"RESULTED", "STARTED", "LIVE"}
                     \/ InPast(event.start, response.at)
                     \/ ~BothNamed(player1, player2)
             record == [id |-> event.id, home |-> player1, away |-> player2,
                        start |-> event.start,
                        odds |-> extractOddsForEvent(NoOdds, response.offers, event)]
         IN GroupedEvents(response, i + 1,
                          IF skip THEN results ELSE Append(results, record))

\* transformer.ts:419-471  transformDKResponse of the grouped normalizer
transformDKResponseGrouped(response) == GroupedEvents(response, 1, <<>>)

\* three players
Players == <<<<Capital("sinner")>>, <<Capital("alcaraz")>>, <<Capital("zverev")>>>>

\* An event of either payload: its id is its place in the payload; status is
\* event.status (flat) or event.eventStatus?.state || "" (grouped); start is
\* the instant of its start date; participants is used by the flat form,
\* teamName1 and teamName2 by the grouped form; <<>> is a missing or empty
\* name.
DKEvent(id, status, start, participants, teamName1, teamName2, name) ==
    [id |-> id, status |-> status, start |-> start, participants |-> participants,
     teamName1 |-> teamName1, teamName2 |-> teamName2, name |-> name]

\* an upcoming event with both players named in every way
GoodEvent(id) ==
    DKEvent(id, "NOT_STARTED", Num(MaxTime),
            <<[venueRole |-> "Home", name |-> Players[1]],
              [venueRole |-> "Away", name |-> Players[2]]>>,
            Players[1], Players[2],
            Players[1] \o <<Lower("v")>> \o Players[2])

\* a selection of the flat payload, an outcome of the grouped payload
DKSelection(marketId, outcomeType, label, american, line) ==
    [marketId |-> marketId, outcomeType |-> outcomeType, label |-> label,
     american |-> american, line |-> line]

DKOutcome(participant, label, oddsAmerican, oddsDecimal, line) ==
    [participant |-> participant, label |-> label, oddsAmerican |-> oddsAmerican,
     oddsDecimal |-> oddsDecimal, line |-> line]

\* The filter specification: one call of either normalizer, at instant now
\* and reading the clock at instant at, on a payload of at most MaxEvents
\* events: one of them is any event, the others are upcoming or started
\* events; each event has one moneyline market (offer) that names both
\* players. A payload may also lack some of its arrays: missing names them
\* (offers stands for eventGroup.offerCategories), or list the same event
\* twice.
InitFilter ==
    LET EventStatuses == {"", "NOT_STARTED", "STARTED", "LIVE", "RESULTED", "FINISHED"}
        Starts == {Num(t) : t \in 0..MaxTime} \cup {NaN}
        DisplayNames ==
            { <<>>,
              Players[1] \o <<Lower("v")>> \o Players[2],
              Players[1] \o <<Capital("vs")>> \o Players[2],
              Players[1] \o Players[2],
              Players[1] \o <<Lower("v")>>,
              TBD \o <<Lower("v")>> \o Players[2],
              Players[1] \o <<Lower("v.")>> \o Players[2] \o <<Lower("v")>> \o Players[3] }
        Home(name) == [venueRole |-> "Home", name |-> name]
        Away(name) == [venueRole |-> "Away", name |-> name]
        ParticipantLists ==
            { <<>>,
              <<Home(Players[1]), Away(Players[2])>>,
              <<Away(Players[2]), Home(Players[1])>>,
              <<Home(Players[1])>>,
              <<Home(TBD), Away(Players[2])>>,
              <<Home(Players[3]), Home(Players[1]), Away(Players[2])>> }
        TeamNames == {<<>>, TBD, Players[1], Players[2]}
        Fixed(i) == IF i % 2 = 1 THEN GoodEvent(i)
                    ELSE [GoodEvent(i) EXCEPT !.status = "STARTED"]
        Markets(n) == [i \in 1..n |-> [id |-> i, eventId |-> i,
                                       name |-> <<Capital("moneyline")>>,
                                       marketTypeName |-> <<>>]]
        Selections(n) ==
            [j \in 1..(2 * n) |->
                IF j % 2 = 1
                THEN DKSelection((j + 1) \div 2, "Home", Players[1],
                                 <<"-", "1", "1", "0">>, Null)
                ELSE DKSelection(j \div 2, "Away", Players[2],
                                 <<"+", "1", "0", "0">>, Null)]
        Offers(n) ==
            [i \in 1..n |->
                [eventId |-> i, isSuspended |-> FALSE,
                 label |-> <<Capital("moneyline")>>,
                 outcomes |-> <<DKOutcome(Players[1], Players[1],
                                          <<"-", "1", "1", "0">>, 191, Null),
                                DKOutcome(Players[2], Players[2],
                                          <<"+", "1", "0", "0">>, 200, Null)>>]]
        Payload(events, now, at) ==
            [events |-> events, now |-> now, at |-> at,
             markets |-> Markets(Len(events)),
             selections |-> Selections(Len(events)),
             offers |-> Offers(Len(events)), missing |-> {}]
        Without(p, missing) ==
            [[f \in DOMAIN p |-> IF f \in missing THEN <<>> ELSE p[f]]
                EXCEPT !.missing = missing]
    IN /\ browser = 0
       /\ chrome = [i \in Insts |-> "none"]
       /\ cyc = [c \in Cycles |-> InitCycle]
       /\ ended = NoEnd
       /\ track = FALSE
       /\ unhandled = FALSE
       /\ seen = NoSeen
       /\ pt = InitPt
       /\ \E now \in 1..MaxTime : \E at \in now..MaxTime :
             \/ \E fn \in {"transformDKResponseFlat", "transformDKResponseGrouped"} :
                   call = OddsCall(fn, Payload(<<>>, now, at))
             \/ \E fn \in {"transformDKResponseFlat", "transformDKResponseGrouped"} :
                   call = OddsCall(fn, Payload(<<GoodEvent(1), GoodEvent(1)>>, now, at))
             \/ \E missing \in SUBSET {"events", "markets", "selections"} :
                   /\ missing # {}
                   /\ call = OddsCall("transformDKResponseFlat",
                         Without(Payload(<<GoodEvent(1)>>, now, at), missing))
             \/ \E missing \in SUBSET {"events", "offers"} :
                   /\ missing # {}
                   /\ call = OddsCall("transformDKResponseGrouped",
                         Without(Payload(<<GoodEvent(1)>>, now, at), missing))
             \/ \E n \in 1..MaxEvents, k \in 1..MaxEvents :
                \E status \in EventStatuses, start \in Starts, name \in DisplayNames :
                   /\ k <= n
                   /\ \/ \E ps \in ParticipantLists :
                            call = OddsCall("transformDKResponseFlat",
                               Payload([i \in 1..n |->
                                          IF i = k
                                          THEN DKEvent(i, status, start, ps, <<>>, <<>>, name)
                                          ELSE Fixed(i)], now, at))
                      \/ \E t1 \in TeamNames, t2 \in TeamNames :
                            call = OddsCall("transformDKResponseGrouped",
                               Payload([i \in 1..n |->
                                          IF i = k
                                          THEN DKEvent(i, status, start, <<>>, t1, t2, name)
                                          ELSE Fixed(i)], now, at))

\* transformer.ts:64-82  const { events, markets, selections } = response
\* and the three for...of loops over them: iterating undefined throws a
\* TypeError. The grouped form reads its arrays with || [] (lines 290, 423).
FlatThrows(response) ==
    response.missing \cap {"events", "markets", "selections"} # {}

FlatReturns ==
    /\ call.fn = "transformDKResponseFlat" /\ ~call.done
    /\ call' = [call EXCEPT !.threw = FlatThrows(call.arg),
                            !.ret = IF FlatThrows(call.arg) THEN Null
                                    ELSE transformDKResponseFlat(call.arg),
                            !.done = TRUE]
    /\ UNCHANGED <<browser, chrome, cyc, ended, track, unhandled, seen, pt>>

GroupedReturns ==
    /\ call.fn = "transformDKResponseGrouped" /\ ~call.done
    /\ call' = [call EXCEPT !.ret = transformDKResponseGrouped(call.arg), !.done = TRUE]
    /\ UNCHANGED <<browser, chrome, cyc, ended, track, unhandled, seen, pt>>

\* the arrays of the payload handed over to the lookup structures
ResponseAfter_ArraysMoved(response) ==
    [response EXCEPT !.markets = <<>>, !.selections = <<>>, !.offers = <<>>]

\* The payload as a call leaves it. transformer.ts:67-80: the lookup maps
\* are filled with arrays made by the call (`get(...) || []`, push, set), not
\* with the payload's; lines 82-203, 290-407 and 423-465 only read the
\* payload.
ResponseAfter(response) == response

\* A second call on the same payload object, with the clock at the instant
\* at2 (not before the first call's): left is the payload after the first
\* call and again what the second call returns.
NormalizesAgain ==
    /\ call.fn \in {"transformDKResponseFlat", "transformDKResponseGrouped"}
    /\ call.done /\ "again" \notin DOMAIN call
    /\ \E at2 \in call.arg.at..MaxTime :
          LET left == ResponseAfter(call.arg)
              response == [left EXCEPT !.now = at2, !.at = at2]
          IN call' = [left |-> left, at2 |-> at2,
                      again |-> IF call.fn = "transformDKResponseGrouped"
                                THEN transformDKResponseGrouped(response)
                                ELSE IF FlatThrows(response) THEN Null
                                ELSE transformDKResponseFlat(response)] @@ call
    /\ UNCHANGED <<browser, chrome, cyc, ended, track, unhandled, seen, pt>>

NextNormalize == FlatReturns \/ GroupedReturns \/ NormalizesAgain

SpecFilter == InitFilter /\ [][NextNormalize]_vars

\* The markets specification: one call of either normalizer on a payload
\* with one upcoming event and at most MaxMarkets markets (offers). A market
\* is a moneyline or a totals market with any list of at most MaxSels
\* selections (outcomes), each on any side and with odds that parse to 100,
\* to -110 or not at all, or it is one of a few fixed markets: of another
\* event, suspended, a totals market with one line, a moneyline with decimal
\* odds only, or it is a spread or an over/under market of two selections
\* (outcomes) with different lines, each on any side.
InitMarkets ==
    LET Names == {<<Capital("moneyline")>>, <<Capital("total"), Capital("games")>>}
        Odds == { [american |-> <<"+", "1", "0", "0">>, decimal |-> 200],
                  [american |-> <<"-", "1", "1", "0">>, decimal |-> 191],
                  [american |-> <<"N", "1">>, decimal |-> 0] }
        SelKinds == {DKSelection(0, side, <<>>, o.american, Null) :
                        side \in {"Home", "Away", ""}, o \in Odds}
        OutcomeKinds == {DKOutcome(Players[k], <<>>, o.american, o.decimal, Null) :
                            k \in 1..3, o \in Odds}
        Lists(kinds) == UNION {[1..k -> kinds] : k \in 0..MaxSels}
        Market(eventId, name, marketTypeName, sels) ==
            [eventId |-> eventId, name |-> name, marketTypeName |-> marketTypeName,
             sels |-> sels]
        Offer(eventId, isSuspended, label, outcomes) ==
            [eventId |-> eventId, isSuspended |-> isSuspended, label |-> label,
             outcomes |-> outcomes]
        MarketKinds ==
            {Market(1, name, <<>>, sels) : name \in Names, sels \in Lists(SelKinds)}
            \cup { Market(2, <<Capital("moneyline")>>, <<>>,
                          <<DKSelection(0, "Home", <<>>, <<"+", "1", "0", "0">>, Null),
                            DKSelection(0, "Away", <<>>, <<"-", "1", "1", "0">>, Null)>>),
                   Market(1, <<Capital("total"), Capital("games")>>, <<>>,
                          <<DKSelection(0, "", <<Capital("under")>>, Undefined, Num(225)),
                            DKSelection(0, "Over", <<>>, Undefined, Num(225))>>) }
            \cup {Market(1, <<>>, <<Capital("game"), Capital("spread")>>,
                          <<DKSelection(0, a, <<>>, Undefined, Num(35)),
                            DKSelection(0, b, <<>>, Undefined, Num(0 - 35))>>) :
                    a \in {"Home", "Away", ""}, b \in {"Home", "Away", ""}}
            \cup {Market(1, <<Capital("over/under")>>, <<>>,
                          <<DKSelection(0, a, <<>>, Undefined, Num(225)),
                            DKSelection(0, b, <<>>, Undefined, Num(235))>>) :
                    a \in {"Over", "Under", ""}, b \in {"Over", "Under", ""}}
        OfferKinds ==
            {Offer(1, FALSE, label, outcomes) :
                label \in Names, outcomes \in Lists(OutcomeKinds)}
            \cup { Offer(2, FALSE, <<Capital("moneyline")>>,
                         <<DKOutcome(Players[1], <<>>, <<"+", "1", "0", "0">>, 200, Null),
                           DKOutcome(Players[2], <<>>, <<"-", "1", "1", "0">>, 191, Null)>>),
                   Offer(1, TRUE, <<Capital("moneyline")>>,
                         <<DKOutcome(Players[1], <<>>, <<"+", "1", "0", "0">>, 200, Null),
                           DKOutcome(Players[2], <<>>, <<"-", "1", "1", "0">>, 191, Null)>>),
                   Offer(1, FALSE, <<Capital("total"), Capital("games")>>,
                         <<DKOutcome(<<>>, <<Capital("under")>>, Undefined, 0, Num(225)),
                           DKOutcome(<<>>, <<Capital("over")>>, Undefined, 0, Num(225))>>),
                   Offer(1, FALSE, <<Capital("match"), Capital("winner")>>,
                         <<DKOutcome(<<>>, Players[2], Undefined, 150, Null),
                           DKOutcome(<<>>, Players[1], Undefined, 250, Null)>>) }
            \cup {Offer(1, FALSE, <<Capital("game"), Capital("spread")>>,
                         <<DKOutcome(<<>>, Players[a], Undefined, 0, Num(35)),
                           DKOutcome(<<>>, Players[b], Undefined, 0, Num(0 - 35))>>) :
                    a \in 1..3, b \in 1..3}
            \cup {Offer(1, FALSE, <<Capital("over/under")>>,
                         <<DKOutcome(<<>>, a, Undefined, 0, Num(225)),
                           DKOutcome(<<>>, b, Undefined, 0, Num(235))>>) :
                    a \in {<<Capital("over")>>, <<Capital("under")>>, <<>>},
                    b \in {<<Capital("over")>>, <<Capital("under")>>, <<>>}}
        RECURSIVE SelsFrom(_, _)
        SelsFrom(f, i) ==
            IF i \notin DOMAIN f THEN <<>>
            ELSE [j \in DOMAIN f[i].sels |-> [f[i].sels[j] EXCEPT !.marketId = i]]
                 \o SelsFrom(f, i + 1)
        Payload(markets, selections, offers) ==
            [events |-> <<GoodEvent(1)>>, now |-> 1, at |-> 1,
             markets |-> markets, selections |-> selections, offers |-> offers,
             missing |-> {}]
    IN /\ browser = 0
       /\ chrome = [i \in Insts |-> "none"]
       /\ cyc = [c \in Cycles |-> InitCycle]
       /\ ended = NoEnd
       /\ track = FALSE
       /\ unhandled = FALSE
       /\ seen = NoSeen
       /\ pt = InitPt
       /\ \E n \in 0..MaxMarkets :
             \/ \E f \in [1..n -> MarketKinds] :
                   call = OddsCall("transformDKResponseFlat",
                      Payload([i \in 1..n |->
                                 [id |-> i, eventId |-> f[i].eventId, name |-> f[i].name,
                                  marketTypeName |-> f[i].marketTypeName]],
                              SelsFrom(f, 1), <<>>))
             \/ \E f \in [1..n -> OfferKinds] :
                   call = OddsCall("transformDKResponseGrouped", Payload(<<>>, <<>>, f))

SpecMarkets == InitMarkets /\ [][NextNormalize]_vars

\* -------------------------------------------------- the transform loop
\* transformer.ts:510-522  Step 4 of scrape(): for each tournament, in order,
\* the payload of its id, skipped when the map has none, normalized inside a
\* try whose catch only logs. A payload is given by what its normalization
\* does: it throws, or it returns recs records; the k-th record of
\* tournament t is <<t, k>>. (The loop of lines 585-600 differs only in
\* where the payload comes from.)

MaxLoopTournaments == 3   \* tournaments of the loop

\* the loop with a catch that leaves the loop
RECURSIVE TransformLoop_ThrowEndsLoop(_, _, _, _)
TransformLoop_ThrowEndsLoop(tournaments, oddsMap, i, allEvents) ==
    IF i > Len(tournaments) THEN allEvents
    ELSE IF ~MapHas(oddsMap, tournaments[i])
         THEN TransformLoop_ThrowEndsLoop(tournaments, oddsMap, i + 1, allEvents)
         ELSE LET response == MapGet(oddsMap, tournaments[i])
                  events == [k \in 1..response.recs |-> <<tournaments[i], k>>]
              IN IF response.throws THEN allEvents
                 ELSE TransformLoop_ThrowEndsLoop(tournaments, oddsMap, i + 1,
                                                 allEvents \o events)

RECURSIVE TransformLoop(_, _, _, _)
TransformLoop(tournaments, oddsMap, i, allEvents) ==
    IF i > Len(tournaments) THEN allEvents
    ELSE IF ~MapHas(oddsMap, tournaments[i])
         THEN TransformLoop(tournaments, oddsMap, i + 1, allEvents)
         ELSE LET response == MapGet(oddsMap, tournaments[i])
                  events == [k \in 1..response.recs |-> <<tournaments[i], k>>]
              IN TransformLoop(tournaments, oddsMap, i + 1,
                               IF response.throws THEN allEvents
                               ELSE allEvents \o events)

\* The loop specification: one run of the loop over at most
\* MaxLoopTournaments tournaments; each has no payload, a payload whose
\* normalization throws, or one that normalizes to at most MaxRecs records.
InitLoop ==
    LET Kinds == {[has |-> FALSE, throws |-> FALSE, recs |-> 0],
                  [has |-> TRUE, throws |-> TRUE, recs |-> 0]}
                 \cup {[has |-> TRUE, throws |-> FALSE, recs |-> n] : n \in 0..MaxRecs}
        MapOf(f) == {<<t, [throws |-> f[t].throws, recs |-> f[t].recs]>> :
                        t \in {x \in DOMAIN f : f[x].has}}
    IN /\ browser = 0
       /\ chrome = [i \in Insts |-> "none"]
       /\ cyc = [c \in Cycles |-> InitCycle]
       /\ ended = NoEnd
       /\ track = FALSE
       /\ unhandled = FALSE
       /\ seen = NoSeen
       /\ pt = InitPt
       /\ \E n \in 1..MaxLoopTournaments : \E f \in [1..n -> Kinds] :
             call = OddsCall("transformLoop",
                             [tournaments |-> TournamentList(n), oddsMap |-> MapOf(f)])

LoopReturns ==
    /\ call.fn = "transformLoop" /\ ~call.done
    /\ call' = [call EXCEPT !.ret = TransformLoop(call.arg.tournaments,
                                                  call.arg.oddsMap, 1, <<>>),
                            !.done = TRUE]
    /\ UNCHANGED <<browser, chrome, cyc, ended, track, unhandled, seen, pt>>

SpecLoop == InitLoop /\ [][LoopReturns]_vars

\* ================================================================= claims
InFlight == {c \in Cycles : cyc[c].pc # "idle"}

NavsOf(c) == {cyc[c].navs[i] : i \in DOMAIN cyc[c].navs}

\* C1 (as stated): no navigation of a cycle's page, the homepage load of
\* createDKPage included, is issued while no response handler is registered.
C1_EveryNavigationObserved ==
    \A c \in Cycles : \A n \in NavsOf(c) : n.observed

\* C1 (amended): every navigation issued by fetchAllTournamentOdds (the tennis
\* page load or click, and each tournament page load) is issued with the
\* handler registered; the homepage load of createDKPage is issued before the
\* handler is registered.
C1_CaptureNavigationsObserved ==
    \A c \in Cycles : \A n \in NavsOf(c) :
        IF n.kind = "home" THEN ~n.observed ELSE n.observed

\* C1 witness: a tournament page was loaded after the tennis page, both with
\* the handler registered.
C1_Witness ==
    \E c \in Cycles :
        /\ \E n \in NavsOf(c) : n.kind = "primary" /\ n.observed
        /\ \E n \in NavsOf(c) : n.kind = "secondary" /\ n.observed

\* C2: whenever a capture call has finished (by returning or by throwing),
\* its response handler is no longer registered on the page.
C2_HandlerRemovedOnEveryExit ==
    /\ \A c \in Cycles : cyc[c].capDone # "no" => ~cyc[c].handlerOn
    /\ pt.pc = "done" => ~pt.handlerOn

\* C3: at most one scrape cycle is in flight at any time.
C3_AtMostOneCycleInFlight == Cardinality(InFlight) <= 1

\* C4: when a cycle ends through its catch block, the browser that was the
\* module-level browser has been closed and the module-level browser is null.
C4_ErrorEndClosesBrowser ==
    [][\A c \in Cycles :
          (cyc[c].pc = "closing" /\ cyc'[c].pc = "idle")
              => (browser' = 0 /\ chrome'[cyc[c].closing] = "closed")]_vars

\* C5: over any sequence of launchBrowser / closeBrowser calls at most one
\* browser instance exists that has been launched and not closed, and the
\* module-level browser, when set, is that instance.
C5_AtMostOneLiveBrowser ==
    /\ Cardinality({i \in Insts : chrome[i] = "running"}) <= 1
    /\ \A i \in Insts : chrome[i] = "running" => browser = i

\* C6: every payload a capture holds for a tournament id was requested and
\* carries that id as its embedded eventGroupId: the entries of the result map
\* of fetchAllTournamentOdds, and the payload of fetchTournamentOdds.
C6_ResultsMatchRequestedIds ==
    /\ \A c \in Cycles : \A e \in cyc[c].results :
          e[1] \in TargetIdsOf(cyc[c].tournaments) /\ e[2].egId = e[1]
    /\ pt.promise = "json" => pt.value.egId = pt.eventGroupId

\* The admission rule as the specification words it.
C7_Is2xx(status) == status >= 200 /\ status < 300

C7_SpecAdmits(r) ==
    /\ r.url \notin {"asset", "data"}
    /\ C7_Is2xx(r.status) /\ r.body.kind # "empty"
    /\ r.ct = "json"

\* C7 (as stated): a response is parsed if and only if its URL is no static
\* asset or data: URI, its status is 2xx and its body non-empty, and its
\* content type is JSON-like; any other response leaves the map unchanged.
C7_AdmittedIffSpecFilters ==
    seen.stage # "none" =>
        /\ seen.parsed <=> C7_SpecAdmits(seen.r)
        /\ ~seen.parsed => ~seen.changed

\* C7 (amended): a response is parsed if and only if, checked in this order,
\* its URL is no static asset or data: URI, its status is exactly 200 and its
\* content type is JSON-like (an empty body is parsed too, and fails to
\* parse); any other response is discarded unparsed, the map unchanged.
C7_AdmittedIffCodeFilters ==
    seen.stage # "none" =>
        /\ seen.parsed <=> (/\ seen.r.url \notin {"asset", "data"}
                            /\ seen.r.status = HTTP_OK
                            /\ seen.r.ct = "json")
        /\ seen.stage = "static" <=> seen.r.url = "asset"
        /\ seen.stage = "data" <=> seen.r.url = "data"
        /\ seen.stage = "status" <=>
              (seen.r.url \notin {"asset", "data"} /\ seen.r.status # HTTP_OK)
        /\ ~seen.parsed => ~seen.changed

\* C7 witness: a 2xx response other than 200 with a JSON content type and a body was
\* discarded by the status check, unparsed.
C7_Witness ==
    /\ seen.stage = "status" /\ ~seen.parsed
    /\ seen.r.status = Other2xxStatus /\ seen.r.ct = "json"
    /\ seen.r.body.kind = "object"

\* C8: a navigation that fails during a capture does not end the capture: no
\* cycle is in its catch block because page.goto threw in the capture.
C8_NavigationFailureNotFatal ==
    \A c \in Cycles : ~(cyc[c].pc = "closing" /\ cyc[c].capDone = "navThrew")

\* C9: a capture makes at most one tennis navigation or click and at most one
\* navigation per tournament, none for a tournament that has a payload, and it
\* ends by returning its map, never by throwing.
C9_BoundedNavigationsAndNormalReturn ==
    \A c \in Cycles :
        /\ Cardinality({i \in DOMAIN cyc[c].navs :
                          cyc[c].navs[i].kind \in {"primary", "click"}}) <= 1
        /\ \A t \in TargetIdsOf(cyc[c].tournaments) :
              Cardinality({i \in DOMAIN cyc[c].navs :
                             cyc[c].navs[i].kind = "secondary"
                             /\ cyc[c].navs[i].tid = t}) <= 1
        /\ \A n \in NavsOf(c) : ~n.satisfied
        /\ cyc[c].capDone \in {"no", "returned"}

\* What a handler is to discard when targetIds are the requested ids: a body
\* that is no JSON, a document without an eventGroup id, an id not requested.
C10_Discarded(r, targetIds) ==
    \/ r.body.kind \in {"empty", "garbage"}
    \/ ~(r.body.kind = "object" /\ r.body.eg /\ r.body.egId # 0)
    \/ r.body.egId \notin targetIds

\* C10: a response whose body is no JSON, or that has no known shape or
\* matches no requested id, is discarded: when its handler invocation ends,
\* nothing was thrown out of it, the result (the map of fetchAllTournamentOdds,
\* the promise of fetchTournamentOdds) is as it was, and the handler is still
\* registered for the responses that follow.
C10_BadResponseDiscarded ==
    [][/\ \A r \in cyc[1].pending :
            (r \notin cyc'[1].pending
             /\ C10_Discarded(r, TargetIdsOf(cyc[1].tournaments)))
                => /\ cyc'[1].results = cyc[1].results
                   /\ cyc'[1].handlerOn
                   /\ ~unhandled'
       /\ \A r \in pt.pending :
            (r \notin pt'.pending /\ C10_Discarded(r, {pt.eventGroupId}))
                => /\ pt'.promise = pt.promise /\ pt'.value = pt.value
                   /\ pt'.handlerOn = pt.handlerOn
                   /\ ~unhandled'
      ]_vars

\* C11: a payload accepted for a tournament is merged into what the map holds
\* for it: no step of a capture leaves the map with less data of a tournament
\* than it held for it before.
C11_AcceptedPayloadMerged ==
    [][\A c \in Cycles : \A e \in cyc[c].results :
          MapHas(cyc'[c].results, e[1])
              => MapGet(cyc'[c].results, e[1]).recs >= e[2].recs]_vars

\* Whether a name contains the words of a keyword, in whatever case.
C14_Contains(name, kw) ==
    \E i \in 0..(Len(name) - Len(kw)) :
        \A j \in 1..Len(kw) : name[i + j].w = kw[j].w

C14_Excluded(name) ==
    \/ \E kw \in SKIP_TOURNAMENT_KEYWORDS : C14_Contains(name, kw)
    \/ C14_Contains(name, <<Lower("doubles")>>)

\* The first sport group of the answer that is tennis by id or by name (0: none).
C14_SportAt(res) ==
    LET hits == {i \in DOMAIN res.groups :
                    \/ res.groups[i].displayGroupId = TENNIS_DISPLAY_GROUP_ID
                    \/ (/\ Len(res.groups[i].displayName) = 1
                        /\ res.groups[i].displayName[1].w = "tennis")}
    IN IF hits = {} THEN 0 ELSE CHOOSE i \in hits : \A j \in hits : i <= j

\* list is, in order and each once, the children at the places in keep.
C14_IsSelection(list, children, keep) ==
    /\ Len(list) = Cardinality(keep)
    /\ \A i \in keep :
          LET k == Cardinality({j \in keep : j <= i})
          IN /\ list[k].eventGroupId = children[i].eventGroupId
             /\ list[k].name = ChildName(children[i])

\* C14 (as stated): for a catalog with a tennis sport group, the resolver
\* returns exactly the child groups of that group whose name contains no skip
\* keyword and not "doubles" (in any case), each once, in catalog order.
C14_ReturnsNonExcludedChildren ==
    (call.fn = "fetchTennisTournaments" /\ call.done /\ call.arg.ok
     /\ call.arg.kind = "groups" /\ C14_SportAt(call.arg) # 0) =>
        LET children == call.arg.groups[C14_SportAt(call.arg)].eventGroupInfos
        IN /\ ~call.ret.threw
           /\ C14_IsSelection(call.ret.list, children,
                  {i \in DOMAIN children : ~C14_Excluded(ChildName(children[i]))})

\* C14 (amended): for a catalog with a tennis sport group, the resolver
\* returns exactly the child groups of the first such group that have an
\* eventGroupId and a non-empty name (eventGroupName, else displayName, else
\* name) containing no skip keyword and not "doubles" (in any case), each
\* once, in catalog order.
C14_ReturnsNamedNonExcludedChildren ==
    (call.fn = "fetchTennisTournaments" /\ call.done /\ call.arg.ok
     /\ call.arg.kind = "groups" /\ C14_SportAt(call.arg) # 0) =>
        LET children == call.arg.groups[C14_SportAt(call.arg)].eventGroupInfos
        IN /\ ~call.ret.threw
           /\ C14_IsSelection(call.ret.list, children,
                  {i \in DOMAIN children :
                      /\ children[i].eventGroupId # 0
                      /\ ChildName(children[i]) # <<>>
                      /\ ~C14_Excluded(ChildName(children[i]))})

\* C14 witness: the tennis group was found by its name in capitals, not by
\* its id; of its two children the first is a doubles group and the second
\* was returned.
C14_Witness ==
    /\ call.fn = "fetchTennisTournaments" /\ call.done /\ call.arg.ok
    /\ call.arg.kind = "groups" /\ C14_SportAt(call.arg) # 0
    /\ LET g == call.arg.groups[C14_SportAt(call.arg)]
       IN /\ g.displayGroupId # TENNIS_DISPLAY_GROUP_ID
          /\ Len(g.eventGroupInfos) = 2
          /\ g.eventGroupInfos[1].eventGroupId # 0
          /\ C14_Contains(ChildName(g.eventGroupInfos[1]), <<Lower("doubles")>>)
          /\ Len(call.ret.list) = 1
          /\ call.ret.list[1].eventGroupId = g.eventGroupInfos[2].eventGroupId

\* A discovery failure: a non-success status, or a document that is no
\* catalog (not JSON, null, or an object without the list of sport groups).
C12_DiscoveryFails(res) ==
    ~res.ok \/ res.kind \in {"notjson", "null", "nogroups"}

\* C12: a cycle whose discovery fails ends on the fatal-error path (the catch
\* block, which closes the session), and on that path no browser is launched,
\* no page is navigated, nothing is normalized and nothing is uploaded.
C12_DiscoveryFailureIsFatal ==
    [][\A c \in Cycles :
          /\ \A res \in CycleNavResponses :
                (/\ C12_DiscoveryFails(res)
                 /\ call'.fn = "fetchTennisTournaments"
                 /\ Discover(c, res))
                    => /\ \/ cyc'[c].pc = "closing"
                          \/ cyc'[c].pc = "idle" /\ ended'.how = "error"
                       /\ \A i \in Insts : chrome'[i] = "running" => chrome[i] = "running"
                       /\ cyc'[c].navs = <<>> /\ cyc'[c].allEvents = 0
          /\ cyc[c].pc = "closing"
                => /\ cyc'[c].pc \in {"closing", "idle"}
                   /\ \A i \in Insts : chrome'[i] = "running" => chrome[i] = "running"
                   /\ cyc'[c].navs = <<>> /\ cyc'[c].allEvents = 0
      ]_vars

\* A catalog that is present and has no sport group matching tennis.
C13_SportAbsent(res) ==
    res.ok /\ res.kind = "groups" /\ C14_SportAt(res) = 0

\* C13: when the catalog has no tennis group, the resolver returns the empty
\* list without throwing and the cycle ends there: its locals are dropped,
\* and the module-level browser and every Chrome process are as before.
C13_SportAbsentEndsQuietly ==
    [][\A c \in Cycles :
          (/\ cyc[c].pc = "discover"
           /\ call'.fn = "fetchTennisTournaments"
           /\ C13_SportAbsent(call'.arg)
           /\ Discover(c, call'.arg))
              => /\ call'.ret = [threw |-> FALSE, list |-> <<>>]
                 /\ cyc'[c] = InitCycle
                 /\ ended' = [how |-> "empty", browser |-> browser]
                 /\ browser' = browser /\ chrome' = chrome
      ]_vars

\* C13 witness: a cycle ended on a catalog with a sport group that is not
\* tennis, with the browser of an earlier cycle set and running.
C13_Witness ==
    /\ call.fn = "fetchTennisTournaments" /\ call.done
    /\ C13_SportAbsent(call.arg) /\ Len(call.arg.groups) = 1
    /\ cyc[1].pc = "idle" /\ ended.how = "empty"
    /\ browser # 0 /\ chrome[browser] = "running" /\ ended.browser = browser

\* the string with every U+2212 written as the ASCII minus sign
C19_Ascii(str) ==
    [i \in DOMAIN str |-> IF str[i] = "U+2212" THEN "-" ELSE str[i]]

C19_Parse(fn, str) ==
    IF fn = "parseAmericanOddsFlat"
    THEN parseAmericanOddsFlat(str)
    ELSE parseAmericanOddsGrouped(str)

\* C19: both variants of the odds-string parser return 100 for "EVEN", and
\* return for a string written with the U+2212 minus sign what they return
\* for the same string written with the ASCII minus sign.
C19_ParsesEvenAndUnicodeSigns ==
    (/\ call.fn \in {"parseAmericanOddsFlat", "parseAmericanOddsGrouped"}
     /\ call.done /\ call.arg # Undefined)
        => /\ call.arg = EVEN => call.ret = Num(100)
           /\ call.ret = C19_Parse(call.fn, C19_Ascii(call.arg))

\* the nearest integer to p / q (q > 0), a half going up: the one r with
\* r - 1/2 <= p/q < r + 1/2
C20_IsRounded(r, p, q) ==
    (2 * r - 1) * q <= 2 * p /\ 2 * p < (2 * r + 1) * q

\* C20: on the grid of hundredths above 1.00 the conversion returns
\* round((d - 1) * 100) from 2.00 on and round(-100 / (d - 1)) below 2.00
\* (2.50 -> 150, 1.50 -> -200, 2.00 -> 100), and an outcome gets the
\* converted value only when its American odds string does not parse.
C20_DecimalToAmerican ==
    /\ (call.fn = "americanFromDecimal" /\ call.done)
          => /\ Len(call.ret) = 1
             /\ IF call.arg >= 200
                THEN C20_IsRounded(call.ret[1], call.arg - 100, 1)
                ELSE C20_IsRounded(call.ret[1], 0 - 10000, call.arg - 100)
             /\ call.arg = 250 => call.ret = <<150>>
             /\ call.arg = 150 => call.ret = <<0 - 200>>
             /\ call.arg = 200 => call.ret = <<100>>
    /\ (call.fn = "outcomeOdds" /\ call.done)
          => LET american == call.arg.oddsAmerican
                 usable == parseAmericanOddsGrouped(american) # Null
             IN IF usable
                THEN call.ret = parseAmericanOddsGrouped(american)
                ELSE IF call.arg.oddsDecimal = 0
                     THEN call.ret = Null
                     ELSE /\ Len(call.ret) = 1
                          /\ IF call.arg.oddsDecimal >= 200
                             THEN call.ret[1] = call.arg.oddsDecimal - 100
                             ELSE C20_IsRounded(call.ret[1], 0 - 10000,
                                                call.arg.oddsDecimal - 100)

\* C20 witness: an outcome whose American odds string does not parse and
\* whose decimal odds are 1.50 has been given -200
C20_Witness ==
    /\ call.fn = "outcomeOdds" /\ call.done
    /\ call.arg = [oddsAmerican |-> <<"N", "1">>, oddsDecimal |-> 150]
    /\ call.ret = <<0 - 200>>

C15_IsNormalizerCall ==
    call.done /\ call.fn \in {"transformDKResponseFlat", "transformDKResponseGrouped"}

\* C15: for either payload shape, no emitted record belongs to an event
\* whose start is before the instant of the call, or that has a status other
\* than not-started.
C15_NoPastOrStartedEvents ==
    C15_IsNormalizerCall
        => \A i \in DOMAIN call.ret :
              LET event == call.arg.events[call.ret[i].id]
              IN /\ event.status \in {"", "NOT_STARTED"}
                 /\ ~(event.start # NaN /\ event.start[1] < call.arg.now)

\* the structured name k of an event: the name of its first participant in
\* that role (flat), its teamName k (grouped)
C16_Structured(fn, event, k) ==
    IF fn = "transformDKResponseGrouped"
    THEN IF k = 1 THEN event.teamName1 ELSE event.teamName2
    ELSE LET role == IF k = 1 THEN "Home" ELSE "Away"
             with == {i \in DOMAIN event.participants :
                         event.participants[i].venueRole = role}
         IN IF with = {} THEN <<>>
            ELSE event.participants[CHOOSE i \in with : \A j \in with : i <= j].name

C16_IsSeparator(word) == word.w \in {"v", "vs", "v."}

\* side k of a display name: with one separator inside it, the words before
\* (k = 1) or after (k = 2) it; without a separator inside it, the whole
\* name for k = 1 and nothing for k = 2; with several, as the split gives it
C16_Side(name, k) ==
    LET inside == {i \in 2..(Len(name) - 1) : C16_IsSeparator(name[i])}
    IN IF inside = {}
       THEN IF k = 1 THEN name ELSE <<>>
       ELSE IF Cardinality(inside) = 1
            THEN LET i == CHOOSE j \in inside : TRUE
                 IN IF k = 1 THEN SubSeq(name, 1, i - 1)
                    ELSE SubSeq(name, i + 1, Len(name))
            ELSE LET pieces == SplitFrom(name, 1, <<>>, <<>>)
                 IN IF k <= Len(pieces) THEN pieces[k] ELSE <<>>

C16_Name(fn, event, k) ==
    IF C16_Structured(fn, event, k) # <<>> THEN C16_Structured(fn, event, k)
    ELSE IF C16_Side(event.name, k) # <<>> THEN C16_Side(event.name, k)
    ELSE TBD

\* C16: every emitted record has both names resolved, each from the
\* structured participant data when present and otherwise from the split of
\* the display name, and an event one of whose names resolves to the
\* placeholder has no record.
C16_EmittedRecordsAreNamed ==
    (call.done /\ call.fn \in {"transformDKResponseFlat", "transformDKResponseGrouped"})
        => /\ \A i \in DOMAIN call.ret :
                 LET event == call.arg.events[call.ret[i].id]
                 IN /\ call.ret[i].home # TBD /\ call.ret[i].away # TBD
                    /\ call.ret[i].home # <<>> /\ call.ret[i].away # <<>>
                    /\ call.ret[i].home = C16_Name(call.fn, event, 1)
                    /\ call.ret[i].away = C16_Name(call.fn, event, 2)
           /\ \A j \in DOMAIN call.arg.events :
                 (\E k \in 1..2 : C16_Name(call.fn, call.arg.events[j], k) = TBD)
                     => \A i \in DOMAIN call.ret : call.ret[i].id # j

\* C16 witness: a grouped payload whose second event has no team names and
\* the display name "Sinner Vs Alcaraz" has been normalized to two records,
\* the second with the two sides of the display name
C16_Witness ==
    /\ call.done /\ call.fn = "transformDKResponseGrouped"
    /\ Len(call.arg.events) = 2
    /\ call.arg.events[2].teamName1 = <<>> /\ call.arg.events[2].teamName2 = <<>>
    /\ call.arg.events[2].name = Players[1] \o <<Capital("vs")>> \o Players[2]
    /\ Len(call.ret) = 2
    /\ call.ret[2].home = Players[1] /\ call.ret[2].away = Players[2]

\* The outcomes of the last moneyline market of the event that the
\* normalizer reads (flat: a market of the event; grouped: an offer of the
\* event that is not suspended), each with whether it is matched to
\* participant 1, to participant 2, and the odds it gives; <<>> without
\* such a market.
C17_LastMoneyline(fn, arg, event) ==
    IF fn = "transformDKResponseFlat"
    THEN LET ms == {i \in DOMAIN arg.markets :
                       /\ arg.markets[i].eventId = event.id
                       /\ IsMoneyline(ToLowerCase(
                             IF arg.markets[i].name # <<>> THEN arg.markets[i].name
                             ELSE arg.markets[i].marketTypeName))}
         IN IF ms = {} THEN <<>>
            ELSE LET m == CHOOSE i \in ms : \A j \in ms : j <= i
                     sels == SelectSeq(arg.selections,
                                       LAMBDA x : x.marketId = arg.markets[m].id)
                 IN [i \in DOMAIN sels |->
                        [m1 |-> sels[i].outcomeType = "Home",
                         m2 |-> sels[i].outcomeType = "Away",
                         value |-> parseAmericanOddsFlat(sels[i].american)]]
    ELSE LET ms == {i \in DOMAIN arg.offers :
                       /\ arg.offers[i].eventId = event.id
                       /\ ~arg.offers[i].isSuspended
                       /\ IsMoneyline(ToLowerCase(arg.offers[i].label))}
         IN IF ms = {} THEN <<>>
            ELSE LET m == CHOOSE i \in ms : \A j \in ms : j <= i
                     outcomes == arg.offers[m].outcomes
                 IN [i \in DOMAIN outcomes |->
                        [m1 |-> \/ outcomes[i].participant = event.teamName1
                                \/ outcomes[i].label = event.teamName1,
                         m2 |-> \/ outcomes[i].participant = event.teamName2
                                \/ outcomes[i].label = event.teamName2,
                         value |-> outcomeOdds(outcomes[i])]]

\* C17: when the last moneyline market of an event has at least two
\* outcomes, the record has for home the odds of the one outcome matched to
\* participant 1 and for away the odds of the one matched to participant 2
\* (where those odds parse), and it has the odds of the first and of the
\* second outcome when no outcome is matched to either participant, whatever
\* an earlier market of the event has given; when that market is the only
\* one of the payload and outcomes are matched to one participant only, the
\* other side has no value.
C17_MoneylineByMatchElsePosition ==
    (call.done /\ call.fn \in {"transformDKResponseFlat", "transformDKResponseGrouped"})
        => \A i \in DOMAIN call.ret :
              LET outs == C17_LastMoneyline(call.fn, call.arg,
                                            call.arg.events[call.ret[i].id])
                  M1 == {j \in DOMAIN outs : outs[j].m1}
                  M2 == {j \in DOMAIN outs : outs[j].m2}
                  odds == call.ret[i].odds
                  alone == Len(call.arg.markets) + Len(call.arg.offers) = 1
              IN Len(outs) >= 2
                    => /\ \A j \in M1 : (M1 = {j} /\ outs[j].value # Null)
                                           => odds.moneyline_home = outs[j].value
                       /\ \A j \in M2 : (M2 = {j} /\ outs[j].value # Null)
                                           => odds.moneyline_away = outs[j].value
                       /\ (M1 = {} /\ M2 = {})
                             => /\ odds.moneyline_home = outs[1].value
                                /\ odds.moneyline_away = outs[2].value
                       /\ (M1 # {} /\ M2 = {} /\ alone) => odds.moneyline_away = Null
                       /\ (M2 # {} /\ M1 = {} /\ alone) => odds.moneyline_home = Null

\* C18: in the flat form, when the one market of the payload is a moneyline
\* market of the event and has two selections of the same side whose odds
\* parse, the record has for that side the odds of the later one.
C18_LaterSelectionWins ==
    (/\ call.done /\ call.fn = "transformDKResponseFlat"
     /\ Len(call.arg.markets) = 1 /\ Len(call.ret) = 1)
        => LET outs == C17_LastMoneyline(call.fn, call.arg, call.arg.events[1])
           IN (Len(outs) = 2 /\ outs[1].value # Null /\ outs[2].value # Null)
                 => /\ (outs[1].m1 /\ outs[2].m1)
                          => call.ret[1].odds.moneyline_home = outs[2].value
                    /\ (outs[1].m2 /\ outs[2].m2)
                          => call.ret[1].odds.moneyline_away = outs[2].value

\* C21  A finished call of either normalizer has not thrown, whatever arrays
\* the payload lacks (markets, selections, events, offer categories): it
\* returned a list of at most as many records as the payload has events.
C21_NormalizationNeverThrows ==
    C15_IsNormalizerCall =>
        /\ ~call.threw
        /\ Len(call.ret) <= Len(call.arg.events)

\* The markets of a category that are attached to the event: for each market
\* (offer) of the payload whether it is one, and how many selections
\* (outcomes) it has. IsCategory is IsMoneyline, IsSpread or IsTotal.
C22_Attached(fn, arg, event) ==
    IF fn = "transformDKResponseFlat"
    THEN [i \in DOMAIN arg.markets |->
            LET market == arg.markets[i]
            IN [name |-> ToLowerCase(IF market.name # <<>> THEN market.name
                                     ELSE market.marketTypeName),
                on |-> market.eventId = event.id,
                n |-> Len(SelectSeq(arg.selections,
                                    LAMBDA x : x.marketId = market.id))]]
    ELSE [i \in DOMAIN arg.offers |->
            LET offer == arg.offers[i]
            IN [name |-> ToLowerCase(offer.label),
                on |-> offer.eventId = event.id /\ ~offer.isSuspended,
                n |-> Len(offer.outcomes)]]

\* C22  An upcoming event with both players named is emitted whatever its
\* markets are, and for each of the three categories: when no market of the
\* category attached to the event has two outcomes, the two fields of the
\* category are null in its record.
C22_EmittedWhateverTheMarkets ==
    (C15_IsNormalizerCall /\ ~call.threw /\ call.arg.events = <<GoodEvent(1)>>) =>
        LET attached == C22_Attached(call.fn, call.arg, GoodEvent(1))
            moneyline == \E i \in DOMAIN attached :
                attached[i].on /\ IsMoneyline(attached[i].name) /\ attached[i].n >= 2
            spread == \E i \in DOMAIN attached :
                attached[i].on /\ IsSpread(attached[i].name) /\ attached[i].n >= 2
            total == \E i \in DOMAIN attached :
                attached[i].on /\ IsTotal(attached[i].name) /\ attached[i].n >= 2
        IN /\ Len(call.ret) = 1
           /\ ~moneyline => /\ call.ret[1].odds.moneyline_home = Null
                            /\ call.ret[1].odds.moneyline_away = Null
           /\ ~spread => /\ call.ret[1].odds.spread_home = Null
                         /\ call.ret[1].odds.spread_away = Null
           /\ ~total => /\ call.ret[1].odds.total_over = Null
                        /\ call.ret[1].odds.total_under = Null

\* what tournament t gives to the cycle: nothing when it has no payload or
\* its normalization throws, else the records of its payload
C23_Output(oddsMap, t) ==
    IF ~MapHas(oddsMap, t) \/ MapGet(oddsMap, t).throws THEN <<>>
    ELSE [k \in 1..MapGet(oddsMap, t).recs |-> <<t, k>>]

\* C23  After the transform loop the record list is the concatenation, in
\* tournament order, of the outputs of the tournaments, where a tournament
\* without payload and one whose normalization throws give no record: the
\* records of each tournament are exactly its output, in its order, and the
\* records of an earlier tournament precede those of a later one.
C23_ConcatenationInTournamentOrder ==
    (call.fn = "transformLoop" /\ call.done) =>
        LET tournaments == call.arg.tournaments
            Place(t) == CHOOSE i \in DOMAIN tournaments : tournaments[i] = t
        IN /\ \A a \in DOMAIN call.ret :
                 \E i \in DOMAIN tournaments : tournaments[i] = call.ret[a][1]
           /\ \A i \in DOMAIN tournaments :
                 SelectSeq(call.ret, LAMBDA r : r[1] = tournaments[i])
                    = C23_Output(call.arg.oddsMap, tournaments[i])
           /\ \A a, b \in DOMAIN call.ret :
                 a < b => Place(call.ret[a][1]) <= Place(call.ret[b][1])

\* A finished loop over three tournaments: the first one's normalization
\* threw, the second had no payload, the third gave its records.
C23_Witness ==
    /\ call.fn = "transformLoop" /\ call.done
    /\ Len(call.arg.tournaments) = 3
    /\ MapHas(call.arg.oddsMap, 1) /\ MapGet(call.arg.oddsMap, 1).throws
    /\ ~MapHas(call.arg.oddsMap, 2)
    /\ call.ret = <<<<3, 1>>>>

\* C24  A publish request is sent by the step that starts the upload. Such a
\* step comes only after the capture has returned and the tournaments have
\* been normalized, it sends the record list of the cycle unchanged, and the
\* list is not empty. The upload is left either by the normal end of the
\* cycle or into the catch block, and from the catch block the cycle only
\* ends, as an error: no second request is sent before the cycle is over.
C24_OnePublishAfterNormalization ==
    [][\A c \in Cycles :
        /\ (cyc[c].pc # "upload" /\ cyc'[c].pc = "upload") =>
              /\ cyc[c].pc = "pageClose"
              /\ cyc[c].capDone = "returned"
              /\ cyc'[c].allEvents = cyc[c].allEvents
              /\ cyc'[c].allEvents > 0
        /\ (cyc[c].pc = "upload" /\ cyc'[c].pc # "upload") =>
              \/ cyc'[c].pc = "idle" /\ ended'.how = "ok"
              \/ cyc'[c].pc = "closing"
        /\ (cyc[c].pc = "closing" /\ cyc'[c].pc # "closing") =>
              cyc'[c].pc = "idle" /\ ended'.how \in {"error", "rejected"}]_vars

\* The request of a cycle with records is in flight.
C24_Witness ==
    \E c \in Cycles :
        /\ cyc[c].pc = "upload"
        /\ cyc[c].allEvents = MaxRecs
        /\ cyc[c].capDone = "returned"

\* C25  After every step, a page on which a navigation has been issued has
\* its viewport, its user agent and its stealth script set; and a step of
\* createDKPage taken with no browser makes no page and issues no
\* navigation: the cycle ends as an error.
C25_PageConfiguredBeforeNavigation ==
    [][\A c \in Cycles :
        /\ cyc'[c].navs # <<>> => cyc'[c].pageCfg = AllPageCfg
        /\ (cyc[c].pc = "createPage" /\ browser = 0) =>
              /\ cyc'[c].page = 0 /\ cyc'[c].navs = <<>>
              /\ cyc'[c].pc = "idle"
              /\ ended'.how = "error"
              /\ chrome' = chrome]_vars

\* The homepage load of a page made by createDKPage has been issued.
C25_Witness ==
    \E c \in Cycles :
        /\ cyc[c].pc = "homeGoto"
        /\ cyc[c].page # 0
        /\ Len(cyc[c].navs) = 1 /\ cyc[c].navs[1].kind = "home"
        /\ cyc[c].pageCfg = AllPageCfg

C27_ScrapeNeverRejects == ended.how # "rejected"

\* C28  Once fetchAllTournamentOdds has returned, no step of the cycle
\* changes the map it returned: a handler invocation whose resp.json()
\* settles after the return adds no entry and replaces none.
C28_ReturnedMapNotModified ==
    [][\A c \in Cycles :
        (cyc[c].capDone = "returned" /\ cyc'[c].capDone = "returned") =>
            cyc'[c].results = cyc[c].results]_vars

\* the lines of the selections (outcomes) of the payload, in input order
C29_Lines(fn, arg) ==
    LET RECURSIVE OfferLines(_)
        OfferLines(offers) ==
            IF offers = <<>> THEN <<>>
            ELSE [k \in DOMAIN Head(offers).outcomes |-> Head(offers).outcomes[k].line]
                 \o OfferLines(Tail(offers))
        all == IF fn = "transformDKResponseFlat"
               THEN [k \in DOMAIN arg.selections |-> arg.selections[k].line]
               ELSE OfferLines(arg.offers)
    IN SelectSeq(all, LAMBDA line : line # Null)

\* C29  In a payload in which no two selections (outcomes) carry the same
\* line, the two spread values of a record, when both are set, differ, and so
\* do its two total values: they are the lines of two different outcomes.
C29_TwoValuesFromTwoOutcomes ==
    (C15_IsNormalizerCall /\ ~call.threw) =>
        LET lines == C29_Lines(call.fn, call.arg)
            distinct == \A a, b \in DOMAIN lines : a # b => lines[a] # lines[b]
        IN distinct =>
             \A i \in DOMAIN call.ret :
                LET odds == call.ret[i].odds
                IN /\ (odds.spread_home # Null /\ odds.spread_away # Null)
                        => odds.spread_home # odds.spread_away
                   /\ (odds.total_over # Null /\ odds.total_under # Null)
                        => odds.total_over # odds.total_under

\* the payload without the markets of other events and, in the grouped
\* form, without the offers of other events and the suspended offers
C30_Own(arg, event) ==
    [arg EXCEPT
       !.markets = SelectSeq(arg.markets, LAMBDA m : m.eventId = event.id),
       !.offers = SelectSeq(arg.offers,
                            LAMBDA o : o.eventId = event.id /\ ~o.isSuspended)]

\* C30  The odds of the record of an event are those that the markets
\* (offers) of that event alone give: the markets of other events and the
\* suspended offers of the payload change no field, and an event with no
\* market of its own has six null fields.
C30_OddsFromOwnMarketsOnly ==
    (C15_IsNormalizerCall /\ ~call.threw /\ call.arg.events = <<GoodEvent(1)>>) =>
        LET own == C30_Own(call.arg, GoodEvent(1))
            alone == IF call.fn = "transformDKResponseFlat"
                     THEN transformDKResponseFlat(own)
                     ELSE transformDKResponseGrouped(own)
        IN /\ Len(call.ret) = 1
           /\ call.ret[1].odds = alone[1].odds
           /\ (own.markets = <<>> /\ own.offers = <<>>) => call.ret[1].odds = NoOdds

\* A record with a moneyline, from a payload whose first offer is suspended
\* and carries other odds than the second.
C30_Witness ==
    /\ C15_IsNormalizerCall /\ call.fn = "transformDKResponseGrouped"
    /\ Len(call.arg.offers) = 2
    /\ call.arg.offers[1].isSuspended /\ call.arg.offers[1].eventId = 1
    /\ ~call.arg.offers[2].isSuspended /\ call.arg.offers[2].eventId = 1
    /\ call.arg.offers[1].outcomes # call.arg.offers[2].outcomes
    /\ call.ret[1].odds.moneyline_home # Null

\* external_id: `dk_tennis_${event.id}` (transformer.ts:186, 453); the id
\* field of a record of the model is the event id it is made from
C31_ExternalId(record) == <<"dk_tennis_", record.id>>

\* C31  The records that one call returns have pairwise different external
\* identifiers, also when the payload lists an event id twice.
C31_DistinctExternalIds ==
    (C15_IsNormalizerCall /\ ~call.threw) =>
        \A i, j \in DOMAIN call.ret :
            i # j => C31_ExternalId(call.ret[i]) # C31_ExternalId(call.ret[j])

\* C32  Every record that a call returns has a start that is a valid instant
\* and is not before the instant of the call.
C32_RecordsStartAtValidInstant ==
    (C15_IsNormalizerCall /\ ~call.threw) =>
        \A i \in DOMAIN call.ret :
            /\ call.ret[i].start # NaN
            /\ call.ret[i].start[1] >= call.arg.now
====
